---------------------------- MODULE Spec2Model ----------------------------
(***************************************************************************)
(* Live voice session of frontend/src/components/InputArea.tsx (the second *)
(* InputArea component of the file, lines 457-1090): the inbound message   *)
(* handler, the barge-in path, the scheduled audio output, the word-by-    *)
(* word transcript reveal, the session start / stop and the single         *)
(* recording of the microphone button.                                     *)
(*                                                                         *)
(* Text is a sequence of one-character strings, wall-clock times and timer *)
(* delays are milliseconds, times on an AudioContext's clock (currentTime, *)
(* the playhead, the start and end of a source) are sample frames of the   *)
(* 24 kHz context (24 frames to the millisecond), gain levels are          *)
(* hundredths (0.85 -> 85).                                                *)
(***************************************************************************)
EXTENDS Integers, Sequences, FiniteSets, TLC

(***************************************************************************)
(* Bounds of the model.                                                    *)
(***************************************************************************)
\* number of clock advances in one run
MaxAdvances == 2
\* number of WebSocket objects created in one run (overlapping or repeated sessions)
MaxSockets == 2
\* the same, where one session is enough
MaxSessions == 1
\* scheduled output sources alive at once, in the audio specification
MaxActive == 3
\* the same, in the transcript specification
MaxActiveReveal == 2
\* length of the pending word queue the environment lets build up
MaxPending == 5
\* words of the transcript target the environment lets build up
MaxWords == 5
\* words of the target before and after a tool result of the message runs
MaxToolBefore == 2
MaxToolWords == 9
\* waits for the reveal timer in a run of the pacing specification
MaxWaits == 3
\* sources scheduled at a time in the life-cycle specification
MaxActiveLife == 1
\* push messages, clear messages and render callbacks in a run of the player
\* specification, the longest pushed chunk and the longest output window
MaxPushes == 2
MaxClears == 1
MaxRenders == 3
MaxChunkLen == 3
MaxFrames == 3
MaxCaptures == 2
\* single recordings (the microphone button) granted in one run
MaxRecordings == 1
\* requests to /api/chat without an answer
MaxFetches == 1
MaxBlock == 2
MaxSample == 6
SampleDen == 4

(***************************************************************************)
(* Program constants.                                                      *)
(***************************************************************************)
WORD_INTERVAL_MS == 340
PAUSE_PUNCT_MS == 280
PAUSE_COMMA_MS == 160
PLACEHOLDER_MS == 500
RECORD_MS == 5000
DEBOUNCE_MS == 600
SAMPLE_RATE == 24000
LEAD_MS == 20
\* sample frames of the 24 kHz context in one millisecond
FRAMES_PER_MS == 24
GAIN_BASE == 85
GAIN_DUCK == 35
\* Date.now() of the moment the model's clock reads 0
EpochMs == 1000000

Null == -1
\* placeholderTimerRef after its callback ran: the ref keeps the dead id
Fired == -2

(***************************************************************************)
(* Characters and strings.                                                 *)
(***************************************************************************)
UpperChars == <<"A","B","C","D","E","F","G","H","I","J","K","L","M",
                "N","O","P","Q","R","S","T","U","V","W","X","Y","Z">>
LowerChars == <<"a","b","c","d","e","f","g","h","i","j","k","l","m",
                "n","o","p","q","r","s","t","u","v","w","x","y","z">>
DigitChars == {"0","1","2","3","4","5","6","7","8","9"}

\* The characters beyond ASCII that the texts can hold are those of U+0080 to
\* U+00FF and of the Greek block, with U+0130, U+0307, U+212A and U+212B.  A
\* character that a string of this language cannot hold is written as the
\* string "U+" and its code point, which stands for the one character.
\*
\* the letters beyond ASCII with a lower case of one character, and their
\* lower case, in the same order
UpperBeyond ==
  << "À", "Á", "Â", "Ã", "Ä", "Å", "Æ", "Ç", "È", "É", "Ê", "Ë",
    "Ì", "Í", "Î", "Ï", "Ð", "Ñ", "Ò", "Ó", "Ô", "Õ", "Ö", "Ø",
    "Ù", "Ú", "Û", "Ü", "Ý", "Þ", "U+0370", "U+0372", "U+0376", "U+037F", "Ά", "Έ",
    "Ή", "Ί", "Ό", "Ύ", "Ώ", "Α", "Β", "Γ", "Δ", "Ε", "Ζ", "Η",
    "Θ", "Ι", "Κ", "Λ", "Μ", "Ν", "Ξ", "Ο", "Π", "Ρ", "Σ", "Τ",
    "Υ", "Φ", "Χ", "Ψ", "Ω", "Ϊ", "Ϋ", "Ϗ", "Ϙ", "Ϛ", "Ϝ", "Ϟ",
    "Ϡ", "Ϣ", "Ϥ", "Ϧ", "Ϩ", "Ϫ", "Ϭ", "Ϯ", "ϴ", "Ϸ", "Ϲ", "Ϻ",
    "Ͻ", "Ͼ", "Ͽ", "U+212A", "U+212B" >>

LowerBeyond ==
  << "à", "á", "â", "ã", "ä", "å", "æ", "ç", "è", "é", "ê", "ë",
    "ì", "í", "î", "ï", "ð", "ñ", "ò", "ó", "ô", "õ", "ö", "ø",
    "ù", "ú", "û", "ü", "ý", "þ", "U+0371", "U+0373", "U+0377", "ϳ", "ά", "έ",
    "ή", "ί", "ό", "ύ", "ώ", "α", "β", "γ", "δ", "ε", "ζ", "η",
    "θ", "ι", "κ", "λ", "μ", "ν", "ξ", "ο", "π", "ρ", "σ", "τ",
    "υ", "φ", "χ", "ψ", "ω", "ϊ", "ϋ", "ϗ", "ϙ", "ϛ", "ϝ", "ϟ",
    "ϡ", "ϣ", "ϥ", "ϧ", "ϩ", "ϫ", "ϭ", "ϯ", "θ", "ϸ", "ϲ", "ϻ",
    "U+037B", "U+037C", "U+037D", "k", "å" >>

OtherCased ==
  { "ª", "µ", "º", "ß", "ÿ", "ΐ", "ΰ", "ς", "ϐ", "ϑ", "ϒ", "ϓ",
    "ϔ", "ϕ", "ϖ", "ϰ", "ϱ", "ϵ", "ϼ", "U+0130" }

CaseIgnorable ==
  { "'", ".", ":", "^", "U+0060", "¨", "­", "¯", "´", "·", "¸", "U+0374",
    "U+0375", "U+037A", "΄", "΅", "·", "U+0307", "﻿" }

\* the lower case of every upper-case letter of the tables
LowerMap ==
  [c \in {UpperChars[i] : i \in 1..26} \cup {UpperBeyond[i] : i \in DOMAIN UpperBeyond} |->
     IF \E i \in 1..26 : UpperChars[i] = c
       THEN LowerChars[CHOOSE i \in 1..26 : UpperChars[i] = c]
       ELSE LowerBeyond[CHOOSE i \in DOMAIN UpperBeyond : UpperBeyond[i] = c]]

\* String.prototype.toLowerCase on one character whose lower case is one
\* character
toLowerCaseChar(c) == IF c \in DOMAIN LowerMap THEN LowerMap[c] ELSE c

\* the Cased property: the letters of the tables and the letters without a
\* partner in them
Cased(c) ==
  \/ \E i \in 1..26 : UpperChars[i] = c \/ LowerChars[i] = c
  \/ \E i \in DOMAIN UpperBeyond : UpperBeyond[i] = c \/ LowerBeyond[i] = c
  \/ c \in OtherCased

\* the Final_Sigma condition of the case conversion: a cased letter before,
\* none after, characters that are Case_Ignorable skipped on both sides
Final_Sigma(s, i) ==
  /\ \E j \in 1..(i - 1) :
       Cased(s[j]) /\ \A k \in (j + 1)..(i - 1) : s[k] \in CaseIgnorable
  /\ ~\E j \in (i + 1)..Len(s) :
        Cased(s[j]) /\ \A k \in (i + 1)..(j - 1) : s[k] \in CaseIgnorable

\* String.prototype.toLowerCase: character by character, but for a capital
\* sigma at the end of a word and for U+0130, which gives two characters
RECURSIVE toLowerCaseFrom(_, _)
toLowerCaseFrom(s, i) ==
  IF i > Len(s) THEN <<>>
  ELSE (IF s[i] = "U+0130" THEN <<"i", "U+0307">>
        ELSE IF s[i] = "Σ" /\ Final_Sigma(s, i) THEN <<"ς">>
        ELSE <<toLowerCaseChar(s[i])>>) \o toLowerCaseFrom(s, i + 1)

toLowerCase(s) == toLowerCaseFrom(s, 1)

\* the case folding of the i flag of a regular expression, for a pattern of
\* ASCII letters: only the ASCII letters fold (a character beyond ASCII whose
\* lower case is an ASCII letter is left as it is)
foldAscii(s) ==
  [i \in 1..Len(s) |->
     IF \E k \in 1..26 : UpperChars[k] = s[i]
       THEN LowerChars[CHOOSE k \in 1..26 : UpperChars[k] = s[i]]
       ELSE s[i]]

\* \s of a regular expression, and what trim() strips: tab, line feed,
\* vertical tab, form feed, carriage return, space, no-break space, ogham
\* space mark, the byte order mark and the spaces and separators from
\* U+2000 on
WhiteSpace == {"\t", "\n", "", "\f", "\r", " ", " ", " ", "﻿",
               "U+2000", "U+2001", "U+2002", "U+2003", "U+2004", "U+2005",
               "U+2006", "U+2007", "U+2008", "U+2009", "U+200A", "U+2028",
               "U+2029", "U+202F", "U+205F", "U+3000"}

IsSpace(c) == c \in WhiteSpace

\* \w of a regular expression
IsWordChar(c) ==
  \/ \E i \in 1..26 : UpperChars[i] = c \/ LowerChars[i] = c
  \/ c \in DigitChars
  \/ c = "_"

\* String.prototype.trim
trim(s) ==
  IF \A i \in 1..Len(s) : IsSpace(s[i]) THEN <<>>
  ELSE LET a == CHOOSE i \in 1..Len(s) :
                  ~IsSpace(s[i]) /\ \A j \in 1..(i-1) : IsSpace(s[j])
           b == CHOOSE i \in 1..Len(s) :
                  ~IsSpace(s[i]) /\ \A j \in (i+1)..Len(s) : IsSpace(s[j])
       IN SubSeq(s, a, b)

\* s.split(/\s+/) of a trimmed, non-empty string
RECURSIVE splitWs(_)
splitWs(s) ==
  IF Len(s) = 0 THEN <<>>
  ELSE IF IsSpace(s[1]) THEN splitWs(Tail(s))
  ELSE LET n == IF \E i \in 1..Len(s) : IsSpace(s[i])
                  THEN (CHOOSE i \in 1..Len(s) :
                          IsSpace(s[i]) /\ \A j \in 1..(i-1) : ~IsSpace(s[j])) - 1
                  ELSE Len(s)
       IN <<SubSeq(s, 1, n)>> \o splitWs(SubSeq(s, n + 1, Len(s)))

\* trimmed.length ? trimmed.split(/\s+/) : []
targetWordsOf(s) ==
  LET trimmed == trim(s) IN IF Len(trimmed) > 0 THEN splitWs(trimmed) ELSE <<>>

\* words.join(' ')
RECURSIVE joinWords(_)
joinWords(ws) ==
  IF Len(ws) = 0 THEN <<>>
  ELSE IF Len(ws) = 1 THEN ws[1]
  ELSE ws[1] \o <<" ">> \o joinWords(Tail(ws))

\* the alternatives of STOP_RE
StopWords ==
  { <<"s","t","o","p">>, <<"c","a","n","c","e","l">>, <<"p","a","u","s","e">>,
    <<"h","o","l","d"," ","o","n">>, <<"w","a","i","t">>, <<"q","u","i","e","t">>,
    <<"b","e"," ","q","u","i","e","t">>, <<"s","i","l","e","n","c","e">>,
    <<"s","h","u","t"," ","u","p">> }

\* the literals isStopPhrase compares the trimmed lower-cased text with
StopLiterals ==
  { <<"s","t">>, <<"s","t","o">>, <<"s","t","o","p">>,
    <<"s","t","o","p",".">>, <<"s","t","o","p","!">> }

\* mutant: the pattern without its word boundaries
STOP_RE_test_noBoundary(s) ==
  \E w \in StopWords : \E i \in 1..Len(s) :
    /\ i + Len(w) - 1 <= Len(s)
    /\ foldAscii(SubSeq(s, i, i + Len(w) - 1)) = w

\* STOP_RE.test(s): /\b(stop|...|shut up)\b/i
STOP_RE_test(s) ==
  \E w \in StopWords : \E i \in 1..Len(s) :
    /\ i + Len(w) - 1 <= Len(s)
    /\ foldAscii(SubSeq(s, i, i + Len(w) - 1)) = w
    /\ (i = 1 \/ ~IsWordChar(s[i - 1]))
    /\ (i + Len(w) - 1 = Len(s) \/ ~IsWordChar(s[i + Len(w)]))

isStopPhrase(s) ==
  LET t == toLowerCase(trim(s)) IN
  IF t \in StopLiterals THEN TRUE ELSE STOP_RE_test(s)

\* /[.?!]$/ and /[,;:]$/ on a word
EndsWithPunct(w) == Len(w) > 0 /\ w[Len(w)] \in {".", "?", "!"}
EndsWithComma(w) == Len(w) > 0 /\ w[Len(w)] \in {",", ";", ":"}


(***************************************************************************)
(* Texts the environment sends.                                            *)
(***************************************************************************)
T_empty == <<>>
T_a_b == <<"a"," ","b">>
T_a_b_c == <<"a"," ","b"," ","c">>
T_a_ff_b == <<"a","\f","b">>
T_stopped == <<"[","s","t","o","p","p","e","d","]">>
T_stop == <<"s","t","o","p">>
T_Hello_c == <<"H","e","l","l","o",",">>
T_Hello_world == T_Hello_c \o <<" ","w","o","r","l","d","!">>
T_Hello_world_Stop == T_Hello_world \o <<" ","S","t","o","p",".">>
T_hello == <<"h","e","l","l","o">>
T_Stop_now == <<"S","t","o","p"," ","n","o","w">>
T_stopping == <<"s","t","o","p","p","i","n","g">>
F_other == <<"f">>
F_find_coffee_shops == <<"f","i","n","d","_","c","o","f","f","e","e","_","s","h","o","p","s">>
F_calculate_brew_ratio == <<"c","a","l","c","u","l","a","t","e","_","b","r","e","w","_","r","a","t","i","o">>

\* the placeholder text shown by the placeholder timer
ELLIPSIS == <<"U+2026">>

(***************************************************************************)
(* State: the refs and React state of the InputArea component, the         *)
(* WebSocket objects it created, and the clock.                            *)
(***************************************************************************)
VARIABLES
  modelSpeakingRef,        \* bot speaking flag
  inResponseRef,           \* response boundary flag
  dropChunksRef,           \* ignore chunks after stop until next start
  lastStopAtRef,           \* Date.now() of the last accepted voice stop, 0 at start
  playheadRef,             \* next scheduled start time, in sample frames
  activeSourcesRef,        \* scheduled sources, in insertion order
  outGainRef,              \* Null, or the level the output gain is set to
  audioContextRef,         \* TRUE iff the ref holds an AudioContext
  mediaStreamRef,          \* TRUE iff the ref holds a MediaStream
  workletNodeRef,          \* TRUE iff the ref holds the capture worklet node
  liveSocketRef,           \* Null, or the index in sockets of the socket held
  liveMode,                \* React state
  botTranscript,           \* React state: the displayed bot text
  botTargetRef,            \* latest full transcript text
  revealedWordsRef,        \* words already revealed
  pendingWordsRef,         \* words queued to reveal
  revealTimerRef,          \* Null, or the time the armed reveal timer is due
  placeholderTimerRef,     \* Null, Fired, or the time the placeholder timer is due
  hasReceivedBotWordsRef,
  sockets,                 \* every WebSocket created: readyState and the values
                           \* its handlers closed over
  starting,                \* startLiveTalk calls suspended at an await
  mounted,                 \* TRUE until the component is unmounted
  openCaptures,            \* microphone streams (each with the AudioContext
                           \* created for it) acquired by startLiveTalk and
                           \* not yet released
  recording,               \* React state: a single recording is in progress
  recorder,                \* the handleMicClick call in flight: "none",
                           \* "asking" (waiting for getUserMedia), "recording"
                           \* (with the time its 5 s timer is due),
                           \* "stopping" (stop() called, the stop event not
                           \* yet dispatched) or "decoding" (recorder.onstop
                           \* at its awaits); session is the session id the
                           \* call closed over
  recorderStreams,         \* microphone streams acquired by handleMicClick;
                           \* nothing stops their tracks
  input,                   \* React state: the text of the text field
  sessionId,               \* App's state, the prop the component reads
  reads,                   \* FileReaders loading a recording, each with the
                           \* session id its sendMessage closed over
  fetches,                 \* sendMessage calls suspended at an await: the
                           \* input_type of each and what it awaits, "fetch"
                           \* (the response) or "json" (res.json())
  unstoppedSources,        \* sources that activeSourcesRef.current.clear()
                           \* let go of without stop() and that have not
                           \* played out: still scheduled on their
                           \* AudioContext; held says whether that context
                           \* is the one audioContextRef holds
  history,                 \* history: lastChunkEnd, the end time of the last
                           \* chunk accepted since the last hard stop (Null
                           \* when there is none); lastStopEver, the
                           \* Date.now() of the last voice stop accepted,
                           \* and lastStop, that of the last one accepted
                           \* since stopLiveTalk last ran (0 when there is
                           \* none); barged, whether a voice stop was accepted with
                           \* no new_response, model_speech_start or
                           \* stopLiveTalk since
  clock,                   \* ms since the component was mounted
  advances,                \* clock advances so far
  fx,                      \* what the last step did to the outside, in order
  lastMsg,                 \* the message the last step handled, NoMsg when the
                           \* last step was no message event
  \* pcm-player-processor.js
  queue,                   \* PCMQueue: buffers, readIndex, length
  playing,                 \* PCMPlayerProcessor.playing
  outCh,                   \* the output window the last render callback left
  lastPort,                \* what the player handled last: "", "push", "clear",
                           \* "setPlaying" or "process"
  tape                     \* player history: samples pushed so far (sample k is
                           \* the k-th pushed), pushes, clears and renders so
                           \* far, the count pushed when last cleared, and the
                           \* queue samples copied out, in order

playerVars == << queue, playing, outCh, lastPort, tape >>

\* one call of the capture worklet's floatTo16BitPCM and one call of
\* isStopPhrase: whether there is a call ("none", "pending", "done"), its
\* argument and, once it has run, its result
VARIABLES encodeCall, phraseCall

callVars == << encodeCall, phraseCall >>

componentVars == << modelSpeakingRef, inResponseRef, dropChunksRef, lastStopAtRef,
           playheadRef, activeSourcesRef, outGainRef, audioContextRef,
           mediaStreamRef, workletNodeRef, liveSocketRef, liveMode,
           botTranscript, botTargetRef, revealedWordsRef, pendingWordsRef,
           revealTimerRef, placeholderTimerRef, hasReceivedBotWordsRef,
           sockets, starting, mounted, openCaptures, recording, recorder,
           recorderStreams, input, sessionId, reads, fetches,
           unstoppedSources, history,
           clock, advances, fx, lastMsg >>

vars == << componentVars, playerVars, callVars >>

\* the component's state as one record: the handlers below map such a record
\* to the record after the call
Cur ==
  [ modelSpeaking |-> modelSpeakingRef, inResponse |-> inResponseRef,
    dropChunks |-> dropChunksRef, lastStopAt |-> lastStopAtRef,
    playhead |-> playheadRef, active |-> activeSourcesRef,
    outGain |-> outGainRef, ctx |-> audioContextRef,
    mediaStream |-> mediaStreamRef, workletNode |-> workletNodeRef,
    liveSocket |-> liveSocketRef, liveMode |-> liveMode,
    botTranscript |-> botTranscript, botTarget |-> botTargetRef,
    revealed |-> revealedWordsRef, pending |-> pendingWordsRef,
    revealTimer |-> revealTimerRef, placeholderTimer |-> placeholderTimerRef,
    hasReceived |-> hasReceivedBotWordsRef, socks |-> sockets,
    captures |-> openCaptures, mounted |-> mounted,
    recording |-> recording, recorder |-> recorder,
    recorderStreams |-> recorderStreams,
    input |-> input, sessionId |-> sessionId, reads |-> reads,
    fetches |-> fetches, unstopped |-> unstoppedSources,
    hist |-> history,
    fx |-> <<>> ]

\* the history after a step: a hard stop forgets the last accepted chunk, an
\* accepted chunk becomes the last one
noteAudio(s) ==
  IF \E j \in 1..Len(s.fx) : s.fx[j].op = "start"
    THEN [s.hist EXCEPT !.lastChunkEnd = s.playhead]
  ELSE IF \E j \in 1..Len(s.fx) : s.fx[j].op = "drop"
    THEN [s.hist EXCEPT !.lastChunkEnd = Null]
  ELSE s.hist

Commit(r) ==
  \E s \in {r} :
  /\ modelSpeakingRef' = s.modelSpeaking
  /\ inResponseRef' = s.inResponse
  /\ dropChunksRef' = s.dropChunks
  /\ lastStopAtRef' = s.lastStopAt
  /\ playheadRef' = s.playhead
  /\ activeSourcesRef' = s.active
  /\ outGainRef' = s.outGain
  /\ audioContextRef' = s.ctx
  /\ mediaStreamRef' = s.mediaStream
  /\ workletNodeRef' = s.workletNode
  /\ liveSocketRef' = s.liveSocket
  \* a state setter called after the unmount changes nothing
  /\ liveMode' = IF mounted THEN s.liveMode ELSE liveMode
  /\ botTranscript' = IF mounted THEN s.botTranscript ELSE botTranscript
  /\ botTargetRef' = s.botTarget
  /\ revealedWordsRef' = s.revealed
  /\ pendingWordsRef' = s.pending
  /\ revealTimerRef' = s.revealTimer
  /\ placeholderTimerRef' = s.placeholderTimer
  /\ hasReceivedBotWordsRef' = s.hasReceived
  /\ sockets' = s.socks
  /\ openCaptures' = s.captures
  /\ mounted' = s.mounted
  /\ recording' = IF mounted THEN s.recording ELSE recording
  /\ recorder' = s.recorder
  /\ recorderStreams' = s.recorderStreams
  /\ input' = IF mounted THEN s.input ELSE input
  /\ sessionId' = s.sessionId
  /\ reads' = s.reads
  /\ fetches' = s.fetches
  /\ unstoppedSources' = s.unstopped
  /\ history' = noteAudio(s)
  /\ fx' = s.fx
  /\ UNCHANGED << playerVars, callVars >>

\* one outside effect appended to the step's record of effects
emit(s, op, arg) == [s EXCEPT !.fx = Append(@, [op |-> op, arg |-> arg])]

\* socket.send on socket k of a frame of the given kind ("audio", "stop" or
\* "commit"); the socket's record counts its commit frames and the frames
\* sent after a commit
send(s, k, kind) ==
  LET sock == s.socks[k]
      sock1 == [sock EXCEPT !.commits = IF kind = "commit" THEN @ + 1 ELSE @,
                            !.late = IF kind # "commit" /\ sock.commits > 0
                                       THEN @ + 1 ELSE @]
      op == IF kind = "commit" THEN "send_commit"
            ELSE IF kind = "stop" THEN "send_stop" ELSE "send_audio"
  IN emit([s EXCEPT !.socks[k] = sock1], op, k)

\* Date.now() when the clock reads now
DateNow(now) == EpochMs + now

\* ctx.currentTime when the clock reads now, in sample frames
currentTime(now) == now * FRAMES_PER_MS

(***************************************************************************)
(* Output: hardStopOutput.                                                 *)
(***************************************************************************)
hardStopOutput(s, now) ==
  LET s1 == IF s.outGain # Null /\ s.ctx
              THEN emit([s EXCEPT !.outGain = 0], "mute", 0)
              ELSE s
      \* src.stop(0) ends a source that has not played out; on one that has
      \* it changes nothing
      cut == SelectSeq(s.active, LAMBDA src : src.end > currentTime(now))
      s2 == [s1 EXCEPT !.active = <<>>,
                       !.fx = @ \o [i \in 1..Len(cut) |->
                                      [op |-> "cut", arg |-> cut[i].frame]]]
      s3 == IF s.ctx THEN [s2 EXCEPT !.playhead = currentTime(now)] ELSE s2
  IN emit([s3 EXCEPT !.dropChunks = TRUE], "drop", 0)

(***************************************************************************)
(* Word-by-word reveal.                                                    *)
(***************************************************************************)
\* clearTimer(ref)
clearTimer(s, isReveal) ==
  IF isReveal THEN [s EXCEPT !.revealTimer = Null]
              ELSE [s EXCEPT !.placeholderTimer = Null]

resetBotReveal(s) ==
  LET s1 == [s EXCEPT !.botTarget = <<>>, !.revealed = <<>>, !.pending = <<>>,
                      !.hasReceived = FALSE]
  IN [clearTimer(clearTimer(s1, TRUE), FALSE) EXCEPT !.botTranscript = <<>>]

scheduleNextReveal(s, delay, now) ==
  emit([clearTimer(s, TRUE) EXCEPT !.revealTimer = now + delay], "setTimeout_tickReveal", delay)

tickReveal(s, now) ==
  IF Len(s.pending) = 0 THEN [s EXCEPT !.revealTimer = Null]
  ELSE LET next == Head(s.pending)
           s1 == [s EXCEPT !.pending = Tail(@), !.revealed = Append(@, next)]
           s2 == [s1 EXCEPT !.botTranscript = joinWords(s1.revealed)]
           delay == IF EndsWithPunct(next) THEN WORD_INTERVAL_MS + PAUSE_PUNCT_MS
                    ELSE IF EndsWithComma(next) THEN WORD_INTERVAL_MS + PAUSE_COMMA_MS
                    ELSE WORD_INTERVAL_MS
       IN scheduleNextReveal(s2, delay, now)

enqueueBotTranscript(s, full, now) ==
  LET s1 == [s EXCEPT !.botTarget = full]
      targetWords == targetWordsOf(s1.botTarget)
      revealedCount == Len(s1.revealed)
      before == Len(s1.pending)
      s2 == [s1 EXCEPT !.pending = @ \o SubSeq(targetWords, revealedCount + 1, Len(targetWords))]
      added == Len(s2.pending) - before
      s3 == IF added > 0 THEN clearTimer([s2 EXCEPT !.hasReceived = TRUE], FALSE) ELSE s2
  IN IF s3.revealTimer = Null THEN scheduleNextReveal(s3, WORD_INTERVAL_MS, now) ELSE s3

finishRevealNow(s) ==
  LET targetWords == targetWordsOf(s.botTarget)
      s1 == [s EXCEPT !.revealed = targetWords, !.pending = <<>>]
      s2 == [s1 EXCEPT !.botTranscript = joinWords(s1.revealed)]
  IN clearTimer(clearTimer(s2, TRUE), FALSE)

\* clearTimer(placeholderTimerRef); placeholderTimerRef.current = setTimeout(..., 500)
armPlaceholder(s, now) ==
  emit([clearTimer(s, FALSE) EXCEPT !.placeholderTimer = now + PLACEHOLDER_MS],
       "setTimeout_placeholder", PLACEHOLDER_MS)

\* the placeholder timer's callback
placeholderCallback(s) ==
  LET s1 == [s EXCEPT !.placeholderTimer = Fired]
  IN IF ~s1.hasReceived THEN [s1 EXCEPT !.botTranscript = ELLIPSIS] ELSE s1


(***************************************************************************)
(* Inbound messages.  A message is the parsed JSON object: event is ""     *)
(* when the field is absent.  audioChunk says whether data.audioChunk is    *)
(* truthy (an absent field and the empty string are not; NoChunk stands    *)
(* for both), whether atob accepts it and how many bytes it decodes to.    *)
(* hasTranscript says whether transcript is a string.  function says       *)
(* whether data.function is a string and holds the text `${data.function}` *)
(* gives ("undefined" when the field is absent).  result holds what the    *)
(* tool_result branch reads of data.result:                                *)
(*   places  kind "array" with its items (an absent or null field is the   *)
(*           empty array), kind "string" for a string that is not empty,   *)
(*           kind "other" for a value without a length or of length 0;     *)
(*           an item is null, or has the text `${p.name}` gives and its    *)
(*           address (empty when absent)                                   *)
(*   city, advice  the text, empty when the field is absent or falsy       *)
(***************************************************************************)
NoChunk == [truthy |-> FALSE, b64ok |-> TRUE, nbytes |-> 0]

Undefined == <<"u","n","d","e","f","i","n","e","d">>

\* values of data.function: a string, a value that is no string and that a
\* template renders as the given text (the array ["x"] renders as x), and
\* the absent field
Fn(text) == [isString |-> TRUE, text |-> text]
NotString(text) == [isString |-> FALSE, text |-> text]
NoFunction == NotString(Undefined)

\* data.function === name
IsFn(function, name) == function.isString /\ function.text = name

NoResult == [ places |-> [kind |-> "array", items |-> <<>>],
              city |-> <<>>, advice |-> <<>> ]

Msg(event, function, audioChunk, hasTranscript, transcript, who) ==
  [ event |-> event, function |-> function, audioChunk |-> audioChunk,
    hasTranscript |-> hasTranscript, transcript |-> transcript, who |-> who,
    result |-> NoResult ]

EventMsg(e) == Msg(e, NoFunction, NoChunk, FALSE, <<>>, "")
ToolMsg(f, r) ==
  [Msg("tool_result", f, NoChunk, FALSE, <<>>, "") EXCEPT !.result = r]
ChunkMsg(c) == Msg("", NoFunction, c, FALSE, <<>>, "")
TextMsg(who, t) == Msg("", NoFunction, NoChunk, TRUE, t, who)

\* atob(data.audioChunk) and new Int16Array(bytes.buffer) both succeed
decodes(chunk) == chunk.b64ok /\ chunk.nbytes % 2 = 0

\* buf.length / buf.sampleRate, in sample frames: one frame for every two
\* bytes of the decoded chunk
duration(chunk) == chunk.nbytes \div 2

\* s.readyState === WebSocket.OPEN for the socket liveSocketRef holds
liveSocketOpen(s) == s.liveSocket # Null /\ s.socks[s.liveSocket].state = "OPEN"

\* (botTranscript || revealedWordsRef.current.length || pendingWordsRef.current.length)
\* with botTranscript the value the handler closed over
showsOldText(s, capBot) == capBot \/ Len(s.revealed) # 0 \/ Len(s.pending) # 0

OnNewResponse(s, now) ==
  LET s1 == [s EXCEPT !.inResponse = TRUE, !.modelSpeaking = FALSE, !.dropChunks = FALSE]
  IN armPlaceholder(resetBotReveal(s1), now)

\* the characters of the summary that a string cannot hold: the bullet and
\* the dash between a name and its address
BULLET == "U+2022"
EM_DASH == "U+2014"

T_Address_not_available == <<"A","d","d","r","e","s","s"," ","n","o","t"," ","a","v","a","i","l","a","b","l","e">>

\* lines.join('\n')
RECURSIVE joinLines(_)
joinLines(ls) ==
  IF Len(ls) = 0 THEN <<>>
  ELSE IF Len(ls) = 1 THEN ls[1]
  ELSE ls[1] \o <<"\n">> \o joinLines(Tail(ls))

\* the tool_result branch throws inside its try: places.map is no function
\* (a string has a length and no map), or an item of places is null
toolThrows(function, result) ==
  /\ IsFn(function, F_find_coffee_shops)
  /\ \/ result.places.kind = "string"
     \/ /\ result.places.kind = "array"
        /\ \E i \in 1..Len(result.places.items) : result.places.items[i].isNull

\* the text a tool_result appends, when the branch does not throw
toolSummary(function, result) ==
  IF IsFn(function, F_find_coffee_shops)
    THEN LET places == result.places
             header == IF result.city # <<>>
                         THEN <<"T","o","p"," ","c","o","f","f","e","e"," ","s","p","o","t","s"," ","i","n"," ">>
                                \o result.city \o <<":">>
                         ELSE <<"T","o","p"," ","c","o","f","f","e","e"," ","s","p","o","t","s",":">>
             line(p) == <<BULLET, " ">> \o p.name \o
                          (IF p.address # <<>> /\ p.address # T_Address_not_available
                             THEN <<" ", EM_DASH, " ">> \o p.address ELSE <<>>)
             lines == IF places.kind = "array" /\ Len(places.items) > 0
                        THEN joinLines([i \in 1..Len(places.items) |-> line(places.items[i])])
                        ELSE <<BULLET>> \o <<" ","N","o"," ","p","l","a","c","e","s"," ","f","o","u","n","d",".">>
         IN header \o <<"\n">> \o lines
  ELSE IF IsFn(function, F_calculate_brew_ratio)
    THEN IF result.advice # <<>> THEN result.advice
         ELSE <<"B","r","e","w"," ","r","a","t","i","o"," ","c","a","l","c","u","l","a","t","e","d",".">>
  ELSE <<"[">> \o function.text \o <<"]"," ","c","o","m","p","l","e","t","e","d",".">>

\* the tool_result branch: what the try block had done when it threw stays
\* done, and the catch block does nothing
OnToolResult(s, m, now, capBot) ==
  LET s1 == IF ~s.modelSpeaking /\ s.inResponse /\ showsOldText(s, capBot)
              THEN resetBotReveal(s) ELSE s
      newTarget == (IF Len(s1.botTarget) > 0 THEN s1.botTarget \o <<"\n">> ELSE <<>>)
                     \o toolSummary(m.function, m.result)
  IN IF toolThrows(m.function, m.result) THEN s1
     ELSE enqueueBotTranscript(s1, newTarget, now)

\* mutant: the flush stops the audio and leaves the reveal to its timer
OnFlushAudio_onlyStops(s, now) == hardStopOutput(s, now)

OnFlushAudio(s, now) == finishRevealNow(hardStopOutput(s, now))

OnModelSpeechStart(s, now) ==
  LET s1 == [s EXCEPT !.modelSpeaking = TRUE, !.inResponse = TRUE, !.dropChunks = FALSE]
      s2 == armPlaceholder(resetBotReveal(s1), now)
  IN IF s2.ctx /\ s2.outGain # Null
       THEN emit([s2 EXCEPT !.outGain = GAIN_DUCK], "ramp", GAIN_DUCK)
       ELSE s2

OnModelSpeechEnd(s, now) ==
  LET s1 == [s EXCEPT !.modelSpeaking = FALSE, !.inResponse = FALSE]
      s2 == finishRevealNow(hardStopOutput(s1, now))
  IN IF s2.ctx /\ s2.outGain # Null
       THEN emit([s2 EXCEPT !.outGain = GAIN_BASE], "ramp", GAIN_BASE)
       ELSE s2

OnAudioChunk(s, chunk, now, capBot) ==
  LET s1 == IF ~s.modelSpeaking /\ showsOldText(s, capBot)
              THEN armPlaceholder([resetBotReveal(s) EXCEPT !.modelSpeaking = TRUE,
                                                            !.inResponse = TRUE], now)
              ELSE s
  IN IF s1.dropChunks THEN s1
     ELSE IF ~s1.ctx THEN s1
     ELSE IF ~decodes(chunk) THEN emit(s1, "throw", 0)
     \* ctx.createBuffer(1, 0, 24000) throws
     ELSE IF duration(chunk) = 0 THEN emit(s1, "throw", 0)
     ELSE LET s2 == IF s1.outGain = Null THEN [s1 EXCEPT !.outGain = GAIN_BASE] ELSE s1
              lead == currentTime(now) + LEAD_MS * FRAMES_PER_MS
              startAt == LET dflt == IF s2.playhead # 0 THEN s2.playhead ELSE lead
                         IN IF lead >= dflt THEN lead ELSE dflt
              src == [frame |-> chunk.nbytes, start |-> startAt,
                      end |-> startAt + duration(chunk)]
          IN emit([s2 EXCEPT !.active = Append(@, src),
                             !.playhead = startAt + duration(chunk)],
                  "start", startAt)

\* mutant: the speaking flag is not consulted
OnUserTranscript_anyState(s, transcript, now) ==
  IF isStopPhrase(transcript) /\ DateNow(now) - s.lastStopAt > DEBOUNCE_MS
    THEN LET s1 == hardStopOutput([s EXCEPT !.lastStopAt = DateNow(now)], now)
         IN IF liveSocketOpen(s1) THEN send(s1, s1.liveSocket, "stop") ELSE s1
    ELSE s

\* mutant: the local stop is skipped when there is no open connection to tell
OnUserTranscript_stopOnlyIfOpen(s, transcript, now) ==
  IF s.modelSpeaking /\ isStopPhrase(transcript) /\ DateNow(now) - s.lastStopAt > DEBOUNCE_MS
    THEN IF liveSocketOpen(s)
           THEN send(hardStopOutput([s EXCEPT !.lastStopAt = DateNow(now)], now),
                     s.liveSocket, "stop")
           ELSE [s EXCEPT !.lastStopAt = DateNow(now)]
    ELSE s

OnUserTranscript(s, transcript, now) ==
  IF s.modelSpeaking /\ isStopPhrase(transcript)
    THEN LET nowMs == DateNow(now) IN
         IF nowMs - s.lastStopAt > DEBOUNCE_MS
           THEN LET s1 == hardStopOutput([s EXCEPT !.lastStopAt = nowMs], now)
                IN IF liveSocketOpen(s1) THEN send(s1, s1.liveSocket, "stop") ELSE s1
           ELSE s
    ELSE s

\* mutant: the sentinel is queued like any other text
OnBotTranscript_queuesSentinel(s, transcript, now, capBot) ==
  LET s1 == IF ~s.modelSpeaking /\ s.inResponse /\ showsOldText(s, capBot)
              THEN resetBotReveal(s) ELSE s
  IN enqueueBotTranscript(s1, transcript, now)

OnBotTranscript(s, transcript, now, capBot) ==
  LET s1 == IF ~s.modelSpeaking /\ s.inResponse /\ showsOldText(s, capBot)
              THEN resetBotReveal(s) ELSE s
  IN IF trim(transcript) = T_stopped
       THEN finishRevealNow([s1 EXCEPT !.botTarget = transcript])
       ELSE enqueueBotTranscript(s1, transcript, now)

\* JSON.parse throws; the catch around the handler logs the error
OnParseError(s) == emit(s, "throw", 0)

\* mutant: a message no branch matches is treated as a flush
handleLiveSocketMessage_defaultFlush(s, m, now, capBot) ==
  IF m.event = "new_response" THEN OnNewResponse(s, now)
  ELSE IF m.event = "tool_result" THEN OnToolResult(s, m, now, capBot)
  ELSE IF m.event = "model_speech_start" THEN OnModelSpeechStart(s, now)
  ELSE IF m.event = "model_speech_end" THEN OnModelSpeechEnd(s, now)
  ELSE IF m.audioChunk.truthy THEN OnAudioChunk(s, m.audioChunk, now, capBot)
  ELSE IF m.hasTranscript
    THEN IF m.who = "user" THEN OnUserTranscript(s, m.transcript, now)
         ELSE OnBotTranscript(s, m.transcript, now, capBot)
  ELSE OnFlushAudio(s, now)

handleLiveSocketMessage(s, m, now, capBot) ==
  IF m.event = "new_response" THEN OnNewResponse(s, now)
  ELSE IF m.event = "tool_result" THEN OnToolResult(s, m, now, capBot)
  ELSE IF m.event = "flush_audio" THEN OnFlushAudio(s, now)
  ELSE IF m.event = "model_speech_start" THEN OnModelSpeechStart(s, now)
  ELSE IF m.event = "model_speech_end" THEN OnModelSpeechEnd(s, now)
  ELSE IF m.audioChunk.truthy THEN OnAudioChunk(s, m.audioChunk, now, capBot)
  ELSE IF m.hasTranscript
    THEN IF m.who = "user" THEN OnUserTranscript(s, m.transcript, now)
         ELSE OnBotTranscript(s, m.transcript, now, capBot)
  ELSE s

(***************************************************************************)
(* Session start and stop.                                                 *)
(***************************************************************************)
\* mutant: the socket is neither closed nor let go of
stopLiveTalk_keepsSocket(s, now) ==
  LET s1 == IF liveSocketOpen(s) THEN send(s, s.liveSocket, "commit") ELSE s
      s2 == hardStopOutput(s1, now)
      \* closing the context ends every source still scheduled on it
      \* (history: voice stops are counted from here on)
      s3 == [s2 EXCEPT !.workletNode = FALSE, !.mediaStream = FALSE,
                       !.ctx = FALSE, !.outGain = Null,
                       !.captures = IF s2.mediaStream THEN @ - 1 ELSE @,
                       !.unstopped = SelectSeq(@, LAMBDA src : ~src.held),
                       !.hist.lastStop = 0, !.hist.barged = FALSE]
  IN [resetBotReveal(s3) EXCEPT !.liveMode = FALSE]

stopLiveTalk(s, now) ==
  LET s1 == IF liveSocketOpen(s) THEN send(s, s.liveSocket, "commit") ELSE s
      s2 == hardStopOutput(s1, now)
      \* closing the context ends every source still scheduled on it
      \* (history: voice stops are counted from here on)
      s3 == [s2 EXCEPT !.workletNode = FALSE, !.mediaStream = FALSE,
                       !.ctx = FALSE, !.outGain = Null,
                       !.captures = IF s2.mediaStream THEN @ - 1 ELSE @,
                       !.unstopped = SelectSeq(@, LAMBDA src : ~src.held),
                       !.hist.lastStop = 0, !.hist.barged = FALSE]
      k == s3.liveSocket
      s4 == IF k # Null /\ s3.socks[k].state \notin {"CLOSED", "CLOSING"}
              THEN emit([s3 EXCEPT !.socks[k].state = "CLOSING"], "close", k)
              ELSE s3
      s5 == [s4 EXCEPT !.liveSocket = Null]
  IN [resetBotReveal(s5) EXCEPT !.liveMode = FALSE]

\* a source that activeSourcesRef let go of
letGo(src) == [frame |-> src.frame, start |-> src.start, end |-> src.end,
               held |-> TRUE]

\* audioContextRef.current = ctx: the context the ref held before is let go
\* of without being closed
saveContext(s) ==
  [s EXCEPT !.ctx = TRUE,
            !.unstopped = [k \in 1..Len(s.unstopped) |->
                             [s.unstopped[k] EXCEPT !.held = FALSE]]]

\* mutant: the start leaves the turn flags, the drop flag and the debounce
\* timestamp as the previous session left them
startLiveTalkRest_keepsFlags(s, now, closure) ==
  LET s1 == [s EXCEPT !.playhead = currentTime(now), !.outGain = GAIN_BASE,
                      !.active = <<>>,
                      !.unstopped = @ \o SelectSeq(
                                     [k \in 1..Len(s.active) |-> letGo(s.active[k])],
                                     LAMBDA src : src.end > currentTime(now))]
      s2 == resetBotReveal(s1)
      s3 == [s2 EXCEPT !.socks = Append(@, [state |-> "CONNECTING",
                                            capBot |-> closure.capBot,
                                            capLive |-> closure.capLive,
                                            commits |-> 0, late |-> 0])]
      s4 == [saveContext(s3) EXCEPT !.liveSocket = Len(s3.socks),
                                    !.mediaStream = TRUE, !.workletNode = TRUE]
  IN [resetBotReveal(s4) EXCEPT !.liveMode = TRUE]

\* startLiveTalk's "Reset state" block; activeSourcesRef is cleared without
\* stopping the sources it held: those that have not played to their end stay
\* scheduled on the context that audioContextRef still holds
startLiveTalkReset(s, now) ==
  LET s1 == [s EXCEPT !.playhead = currentTime(now), !.outGain = GAIN_BASE,
                      !.modelSpeaking = FALSE, !.inResponse = FALSE,
                      !.lastStopAt = 0, !.dropChunks = FALSE, !.active = <<>>,
                      !.unstopped = @ \o SelectSeq(
                                     [k \in 1..Len(s.active) |-> letGo(s.active[k])],
                                     LAMBDA src : src.end > currentTime(now))]
  IN resetBotReveal(s1)

\* startLiveTalk from the first statement after its awaits to its end
startLiveTalkRest(s, now, closure) ==
  LET s2 == startLiveTalkReset(s, now)
      s3 == [s2 EXCEPT !.socks = Append(@, [state |-> "CONNECTING",
                                            capBot |-> closure.capBot,
                                            capLive |-> closure.capLive,
                                            commits |-> 0, late |-> 0])]
      s4 == [saveContext(s3) EXCEPT !.liveSocket = Len(s3.socks),
                                    !.mediaStream = TRUE, !.workletNode = TRUE]
  IN [resetBotReveal(s4) EXCEPT !.liveMode = TRUE]


\* mutant: capture frames are held back while chunks are being dropped
onWorkletMessage_gated(s, i) ==
  IF s.socks[i].state # "CONNECTING" /\ s.socks[i].state = "OPEN" /\ ~s.dropChunks
    THEN send(s, i, "audio")
    ELSE s

\* node.port.onmessage of the session that created socket i; the handler is
\* installed by socket.onopen, so it exists once the socket has left
\* CONNECTING
onWorkletMessage(s, i) ==
  IF s.socks[i].state # "CONNECTING" /\ s.socks[i].state = "OPEN"
    THEN send(s, i, "audio")
    ELSE s

(***************************************************************************)
(* The pull-based PCM player worklet (pcm-player-processor.js).  A sample  *)
(* is a non-zero number; 0 is silence.                                     *)
(***************************************************************************)
Zeros(n) == [j \in 1..n |-> 0]

Min(a, b) == IF a < b THEN a ELSE b

\* PCMQueue.push
PCMQueue_push(q, f32) ==
  IF Len(f32) > 0
    THEN [q EXCEPT !.buffers = Append(@, f32), !.length = @ + Len(f32)]
    ELSE q

\* mutant: clear keeps a head chunk that is partly read
PCMQueue_clear_keepsHead(q) ==
  IF q.readIndex > 0
    THEN [q EXCEPT !.buffers = <<Head(@)>>, !.length = Len(q.buffers[1])]
    ELSE [buffers |-> <<>>, readIndex |-> 0, length |-> 0]

\* PCMQueue.clear
PCMQueue_clear(q) == [buffers |-> <<>>, readIndex |-> 0, length |-> 0]

\* the while loop of PCMQueue.popInto: st is [q, out, wanted], out the samples
\* written so far
RECURSIVE popLoop(_)
popLoop(st) ==
  IF st.wanted > 0 /\ Len(st.q.buffers) > 0
    THEN LET head == st.q.buffers[1]
             remainInHead == Len(head) - st.q.readIndex
             toCopy == Min(remainInHead, st.wanted)
             st1 == IF toCopy > 0
                      THEN [q |-> [st.q EXCEPT !.readIndex = @ + toCopy],
                            out |-> st.out \o SubSeq(head, st.q.readIndex + 1,
                                                      st.q.readIndex + toCopy),
                            wanted |-> st.wanted - toCopy]
                      ELSE st
             st2 == IF st1.q.readIndex >= Len(head)
                      THEN [st1 EXCEPT !.q.buffers = Tail(@), !.q.readIndex = 0]
                      ELSE st1
         IN popLoop(st2)
    ELSE st

\* PCMQueue.popInto(out) with out.length = n: the queue after the call and the
\* samples written (written = Len(out))
PCMQueue_popInto(q, n) ==
  LET st == popLoop([q |-> q, out |-> <<>>, wanted |-> n])
  IN [q |-> st.q, out |-> st.out]

\* mutant: an underflowing window is silenced whole
process_fillsAll(q, isPlaying, n) ==
  IF ~isPlaying THEN [q |-> q, outCh |-> Zeros(n), copied |-> <<>>]
  ELSE LET r == PCMQueue_popInto(q, n)
       IN [q |-> r.q,
           outCh |-> IF Len(r.out) < n THEN Zeros(n) ELSE r.out,
           copied |-> r.out]

\* mutant: the closed gate silences the window but the queue is still read
process_drainsWhileMuted(q, isPlaying, n) ==
  LET r == PCMQueue_popInto(q, n)
  IN [q |-> r.q,
      outCh |-> IF isPlaying THEN r.out \o Zeros(n - Len(r.out)) ELSE Zeros(n),
      copied |-> IF isPlaying THEN r.out ELSE <<>>]

\* PCMPlayerProcessor.process with an output channel of n frames: the queue
\* after the call and the channel's contents
process(q, isPlaying, n) ==
  IF ~isPlaying THEN [q |-> q, outCh |-> Zeros(n), copied |-> <<>>]
  ELSE LET r == PCMQueue_popInto(q, n)
           written == Len(r.out)
       IN [q |-> r.q,
           outCh |-> IF written < n THEN r.out \o Zeros(n - written) ELSE r.out,
           copied |-> r.out]

\* the unread samples of the queue, in order
Remaining(q) ==
  IF Len(q.buffers) = 0 THEN <<>>
  ELSE LET RECURSIVE cat(_)
           cat(bs) == IF bs = <<>> THEN <<>> ELSE Head(bs) \o cat(Tail(bs))
       IN SubSeq(q.buffers[1], q.readIndex + 1, Len(q.buffers[1])) \o cat(Tail(q.buffers))

\* port message {type: 'push', chunk}: a chunk of len samples (len 0: an
\* empty or unusable chunk)
PortPush(len) ==
  /\ tape.pushes < MaxPushes
  /\ LET f32 == [j \in 1..len |-> tape.pushed + j]
     IN queue' = PCMQueue_push(queue, f32)
  /\ tape' = [tape EXCEPT !.pushed = @ + len, !.pushes = @ + 1]
  /\ lastPort' = "push"
  /\ UNCHANGED << playing, outCh, componentVars, callVars >>

\* port message {type: 'clear'}
PortClear ==
  /\ tape.clears < MaxClears
  /\ queue' = PCMQueue_clear(queue)
  /\ tape' = [tape EXCEPT !.clears = @ + 1, !.clearedAt = tape.pushed]
  /\ lastPort' = "clear"
  /\ UNCHANGED << playing, outCh, componentVars, callVars >>

\* port message {type: 'setPlaying', playing: b}
PortSetPlaying(b) ==
  /\ playing' = b
  /\ lastPort' = "setPlaying"
  /\ UNCHANGED << queue, outCh, tape, componentVars, callVars >>

\* a render callback with an output channel of n frames
Render(n) ==
  /\ tape.renders < MaxRenders
  /\ LET r == process(queue, playing, n)
     IN /\ queue' = r.q
        /\ outCh' = r.outCh
        /\ tape' = [tape EXCEPT !.renders = @ + 1, !.played = @ \o r.copied]
  /\ lastPort' = "process"
  /\ UNCHANGED << playing, componentVars, callVars >>

\* a render callback whose output has no channel: process returns at once
RenderNoChannel ==
  /\ tape.renders < MaxRenders
  /\ tape' = [tape EXCEPT !.renders = @ + 1]
  /\ outCh' = <<>>
  /\ lastPort' = "process"
  /\ UNCHANGED << queue, playing, componentVars, callVars >>

(***************************************************************************)
(* The capture worklet (audio-processor.js).  A float sample is the        *)
(* rational n / SampleDen, held as its numerator n; a buffer is a sequence *)
(* of bytes.                                                               *)
(***************************************************************************)
\* truncation toward zero of a / b (b > 0), as ToInt16 does before it wraps
TruncDiv(a, b) == IF a >= 0 THEN a \div b ELSE -((-a) \div b)

\* Math.max(-1, Math.min(1, x)) on numerators
clampUnit(n) == IF n > SampleDen THEN SampleDen ELSE IF n < -SampleDen THEN -SampleDen ELSE n

\* DataView.setInt16(_, x, true) for x = a / SampleDen: ToInt16, low byte first
setInt16(a) ==
  LET u == TruncDiv(a, SampleDen) % 65536
  IN << u % 256, u \div 256 >>

\* one iteration of the loop of floatTo16BitPCM
sampleBytes(n) ==
  LET c == clampUnit(n)
  IN setInt16(IF c < 0 THEN c * 32768 ELSE c * 32767)

floatTo16BitPCM(float32) ==
  [k \in 1..(2 * Len(float32)) |-> sampleBytes(float32[(k + 1) \div 2])[2 - (k % 2)]]

(***************************************************************************)
(* What the environment sends.                                             *)
(***************************************************************************)
Events == {"new_response", "model_speech_start", "model_speech_end", "flush_audio"}
\* 50 ms and 100 ms of 16-bit mono PCM at 24 kHz
Chunk50 == [truthy |-> TRUE, b64ok |-> TRUE, nbytes |-> 2400]
Chunk100 == [truthy |-> TRUE, b64ok |-> TRUE, nbytes |-> 4800]
\* a chunk that lasts no whole number of milliseconds (1201 frames)
ChunkFrac == [truthy |-> TRUE, b64ok |-> TRUE, nbytes |-> 2402]
BotTexts == {T_a_b, T_a_b_c, T_stopped}
MsgTexts == {T_a_b, T_a_ff_b}
PaceTexts == {T_Hello_c, T_Hello_world, T_Hello_world_Stop, T_a_b}
PaceEvents == {"new_response", "model_speech_start"}
LifeEvents == {"model_speech_start"}
\* the sessionId prop: null, or a string
NoSession == [isNull |-> TRUE, id |-> <<>>]
Session(id) == [isNull |-> FALSE, id |-> id]
\* the session id of the login, and the one a response can carry
S0 == <<"s","0">>
S1 == <<"s","1">>

\* typed texts (one is white space only), and answers of /api/chat: a reply
\* with a new session id and audio, an error with the recognized text, an
\* object with none of the fields, and a body that is no JSON
InputTexts == { <<" ">>, <<" ","h","i"," ">> }
Resp(json, session_id, recognized_text, reply, error, audio) ==
  [ json |-> json, session_id |-> session_id, recognized_text |-> recognized_text,
    reply |-> reply, error |-> error, audio |-> audio ]
Responses ==
  { Resp(TRUE, S1, <<>>, <<"o","k">>, <<>>, TRUE),
    Resp(TRUE, <<>>, <<"h","i">>, <<>>, <<"x">>, FALSE),
    Resp(TRUE, <<>>, <<>>, <<>>, <<>>, FALSE),
    Resp(FALSE, <<>>, <<>>, <<>>, <<>>, FALSE) }

\* tool results: the one of the reveal runs, and those of the message runs
\* (no function name, an unknown name, a known name inside an array, each
\* known function with no result body, with a full one and with one the
\* branch throws on, an advice text)
Place(name, address) == [isNull |-> FALSE, name |-> name, address |-> address]
NullPlace == [isNull |-> TRUE, name |-> <<>>, address |-> <<>>]
RevealTools == { ToolMsg(Fn(F_other), NoResult) }
MsgTools ==
  { ToolMsg(NoFunction, NoResult),
    ToolMsg(Fn(F_other), NoResult),
    ToolMsg(NotString(F_find_coffee_shops),
            [NoResult EXCEPT !.places.items = << Place(<<"a">>, <<"b">>) >>]),
    ToolMsg(Fn(F_find_coffee_shops), NoResult),
    ToolMsg(Fn(F_find_coffee_shops),
            [NoResult EXCEPT !.city = <<"X">>,
                             !.places.items = << Place(<<"a">>, <<"b">>) >>]),
    ToolMsg(Fn(F_find_coffee_shops),
            [NoResult EXCEPT !.places.items =
               << Place(<<"a">>, T_Address_not_available), Place(Undefined, <<>>) >>]),
    ToolMsg(Fn(F_find_coffee_shops),
            [NoResult EXCEPT !.places.items = << Place(<<"a">>, <<>>), NullPlace >>]),
    ToolMsg(Fn(F_find_coffee_shops), [NoResult EXCEPT !.places.kind = "string"]),
    ToolMsg(Fn(F_find_coffee_shops), [NoResult EXCEPT !.places.kind = "other"]),
    ToolMsg(Fn(F_calculate_brew_ratio), NoResult),
    ToolMsg(Fn(F_calculate_brew_ratio), [NoResult EXCEPT !.advice = T_a_b]) }
Gaps == {50, 1000}
\* chunks whose payload cannot be played: atob rejects the text, the byte
\* count is odd and the Int16Array view cannot be built, or there is no byte
\* and createBuffer rejects the length 0
ChunkBadBase64 == [truthy |-> TRUE, b64ok |-> FALSE, nbytes |-> 2400]
ChunkOddBytes == [truthy |-> TRUE, b64ok |-> TRUE, nbytes |-> 2401]
\* a chunk such as " ": truthy, and atob gives no byte
ChunkNoBytes == [truthy |-> TRUE, b64ok |-> TRUE, nbytes |-> 0]
MsgChunks == {Chunk50, ChunkBadBase64, ChunkOddBytes, ChunkNoBytes}
\* parsed messages no branch of the handler matches: an event name it does not
\* know, and an object with neither an event nor a payload
UnknownMsgs ==
  { Msg("ping", NoFunction, NoChunk, FALSE, <<>>, ""),
    Msg("", NoFunction, NoChunk, FALSE, <<>>, "bot") }
\* the value of lastMsg after a message whose text is not JSON
NotJsonMsg == Msg("not_json", NoFunction, NoChunk, FALSE, <<>>, "")

\* sample blocks handed to the capture worklet: up to MaxBlock samples, each
\* a multiple of 1 / SampleDen between -MaxSample / SampleDen and
\* MaxSample / SampleDen
Samples == (-MaxSample)..MaxSample
Blocks == UNION {[1..n -> Samples] : n \in 0..MaxBlock}

\* texts handed to isStopPhrase: a vocabulary word, a truncated token or
\* another word, in lower, upper or mixed case, alone or inside a longer text
PhraseCores ==
  StopWords \cup
  { <<"s","t">>, <<"s","t","o">>, <<"S","T","O","P">>, <<"S","t">>,
    <<"H","o","l","d"," ","O","n">>, <<"h","o","l","d"," "," ","o","n">>,
    <<"h","e","l","l","o">>, <<>> }
PhraseBefore == { <<>>, <<" ">>, <<"n","o","n","-">>, <<"u","n">>, <<"o","h"," ">>,
                  <<"U+2003">>, <<"É">>, <<"Σ"," ">> }
PhraseAfter == { <<>>, <<" ">>, <<"\f">>, <<".">>, <<"!">>, <<"p","i","n","g">>,
                 <<"e","r">>, <<"_","1">>, <<" ","n","o","w">> }
Phrases == { b \o c \o a : b \in PhraseBefore, c \in PhraseCores, a \in PhraseAfter }

\* no call, and the calls a behaviour can start with
NoEncodeCall == [state |-> "none", arg |-> <<>>, out |-> <<>>]
NoPhraseCall == [state |-> "none", arg |-> <<>>, out |-> FALSE]
EncodeCalls == { [state |-> "pending", arg |-> b, out |-> <<>>] : b \in Blocks }
PhraseCalls == { [state |-> "pending", arg |-> t, out |-> FALSE] : t \in Phrases }

\* the value of lastMsg after a step that is no message event
NoMsg == Msg("", NoFunction, NoChunk, FALSE, <<>>, "")

\* no handleMicClick call in flight
NoRecorder == [state |-> "none", due |-> Null, session |-> NoSession]

IsPrefix(a, b) == Len(a) <= Len(b) /\ SubSeq(b, 1, Len(a)) = a

\* the server's bot transcript only grows within a reply (or is the sentinel)
Grows(t) ==
  \/ trim(t) = T_stopped
  \/ IsPrefix(targetWordsOf(botTargetRef), targetWordsOf(t))

RemoveAt(q, k) == SubSeq(q, 1, k - 1) \o SubSeq(q, k + 1, Len(q))

(***************************************************************************)
(* Initial state: the component is mounted, no session.                    *)
(***************************************************************************)
InitSession ==
  /\ modelSpeakingRef = FALSE
  /\ inResponseRef = FALSE
  /\ dropChunksRef = FALSE
  /\ lastStopAtRef = 0
  /\ playheadRef = 0
  /\ activeSourcesRef = <<>>
  /\ outGainRef = Null
  /\ audioContextRef = FALSE
  /\ mediaStreamRef = FALSE
  /\ workletNodeRef = FALSE
  /\ liveSocketRef = Null
  /\ liveMode = FALSE
  /\ botTranscript = <<>>
  /\ botTargetRef = <<>>
  /\ revealedWordsRef = <<>>
  /\ pendingWordsRef = <<>>
  /\ revealTimerRef = Null
  /\ placeholderTimerRef = Null
  /\ hasReceivedBotWordsRef = FALSE
  /\ sockets = <<>>
  /\ starting = <<>>
  /\ openCaptures = 0
  /\ recording = FALSE
  /\ recorder = NoRecorder
  /\ recorderStreams = 0
  /\ input = <<>>
  /\ sessionId = Session(S0)
  /\ reads = <<>>
  /\ fetches = <<>>
  /\ unstoppedSources = <<>>
  /\ history = [lastChunkEnd |-> Null, lastStop |-> 0, lastStopEver |-> 0,
                barged |-> FALSE]
  /\ mounted = TRUE
  /\ clock = 0
  /\ advances = 0
  /\ fx = <<>>
  /\ lastMsg = NoMsg
  /\ queue = [buffers |-> <<>>, readIndex |-> 0, length |-> 0]
  /\ playing = FALSE
  /\ outCh = <<>>
  /\ lastPort = ""
  /\ tape = [pushed |-> 0, pushes |-> 0, clears |-> 0, renders |-> 0,
             clearedAt |-> 0, played |-> <<>>]

Init == InitSession /\ encodeCall = NoEncodeCall /\ phraseCall = NoPhraseCall

\* the component is mounted and a call of a pure function is about to run
InitCalls ==
  /\ InitSession
  /\ \/ encodeCall \in EncodeCalls /\ phraseCall = NoPhraseCall
     \/ encodeCall = NoEncodeCall /\ phraseCall \in PhraseCalls

\* the capture worklet's process(): encodes the block and posts the buffer
CaptureProcess ==
  /\ encodeCall.state = "pending"
  /\ encodeCall' = [encodeCall EXCEPT !.state = "done",
                                       !.out = floatTo16BitPCM(encodeCall.arg)]
  /\ UNCHANGED << componentVars, playerVars, phraseCall >>

\* a call of isStopPhrase
CallIsStopPhrase ==
  /\ phraseCall.state = "pending"
  /\ phraseCall' = [phraseCall EXCEPT !.state = "done",
                                       !.out = isStopPhrase(phraseCall.arg)]
  /\ UNCHANGED << componentVars, playerVars, encodeCall >>

(***************************************************************************)
(* Steps.                                                                  *)
(***************************************************************************)
\* toggleLive with liveMode false: startLiveTalk up to its first await
\* (maxSockets bounds the sockets a run creates)
ClickStart(maxSockets) ==
  /\ mounted
  /\ ~recording
  /\ ~liveMode
  /\ IF liveSocketRef # Null /\ sockets[liveSocketRef].state \in {"OPEN", "CONNECTING"}
       THEN /\ Commit([Cur EXCEPT !.liveMode = TRUE])
            /\ UNCHANGED starting
       ELSE /\ Len(sockets) + Len(starting) < maxSockets
            /\ starting' = Append(starting, [capBot |-> botTranscript # <<>>,
                                             capLive |-> liveMode,
                                             mic |-> FALSE])
            /\ Commit(Cur)
  /\ lastMsg' = NoMsg
  /\ UNCHANGED <<clock, advances>>

\* toggleLive with liveMode true
ClickStop ==
  /\ mounted
  /\ ~recording
  /\ liveMode
  /\ Commit(stopLiveTalk(Cur, clock))
  /\ lastMsg' = NoMsg
  /\ UNCHANGED <<starting, clock, advances>>

\* the component is unmounted: the user logs out (handleLogout of App sets
\* the session id to null) and the effect cleanup runs
Unmount ==
  /\ mounted
  /\ Commit([clearTimer(clearTimer(Cur, TRUE), FALSE) EXCEPT
               !.mounted = FALSE, !.sessionId = NoSession])
  /\ lastMsg' = NoMsg
  /\ UNCHANGED <<starting, clock, advances>>

\* getUserMedia resolved: the call holds a stream and the AudioContext it
\* creates, in local variables, and waits for addModule
MicGranted(k) ==
  /\ ~starting[k].mic
  /\ openCaptures < MaxCaptures
  /\ starting' = [starting EXCEPT ![k].mic = TRUE]
  /\ Commit([Cur EXCEPT !.captures = @ + 1])
  /\ lastMsg' = NoMsg
  /\ UNCHANGED <<clock, advances>>

\* addModule resolved: the rest of startLiveTalk runs
StartProceed(k) ==
  /\ starting[k].mic
  /\ Commit(startLiveTalkRest(Cur, clock, starting[k]))
  /\ lastMsg' = NoMsg
  /\ starting' = RemoveAt(starting, k)
  /\ UNCHANGED <<clock, advances>>

\* getUserMedia rejected, or addModule rejected, or the creation of the
\* worklet node threw: the catch block runs with the refs as they were
StartFail(k) ==
  /\ Commit(stopLiveTalk(Cur, clock))
  /\ lastMsg' = NoMsg
  /\ starting' = RemoveAt(starting, k)
  /\ UNCHANGED <<clock, advances>>

\* addModule resolved and new WebSocket threw: the catch block runs after the
\* "Reset state" block, the stream and the context still local variables
StartFailSocket(k) ==
  /\ starting[k].mic
  /\ Commit(stopLiveTalk(startLiveTalkReset(Cur, clock), clock))
  /\ lastMsg' = NoMsg
  /\ starting' = RemoveAt(starting, k)
  /\ UNCHANGED <<clock, advances>>

\* addMessage of App, a prop: a message is appended to the chat (audio
\* says whether a recording to play comes with it)
addMessage(s, sender, text, audio) ==
  emit(s, "addMessage", [sender |-> sender, text |-> text, audio |-> audio])

T_Mic_denied == <<"M","i","c","r","o","p","h","o","n","e"," ","a","c","c","e","s","s"," ","d","e","n","i","e","d"," ","o","r"," ","u","n","a","v","a","i","l","a","b","l","e",".">>
T_Voice_message == <<"[","V","o","i","c","e"," ","m","e","s","s","a","g","e","]">>
T_Error_ == <<"E","r","r","o","r",":"," ">>
T_Could_not_reach == <<"E","r","r","o","r",":"," ","C","o","u","l","d"," ","n","o","t"," ","r","e","a","c","h"," ","s","e","r","v","e","r",".">>

\* sendMessage up to its await: the typed text is shown at once and the
\* request leaves with the session id the function closed over
sendMessage(s, message, input_type, session) ==
  LET s1 == IF input_type = "text" THEN addMessage(s, "user", message, FALSE) ELSE s
  IN emit([s1 EXCEPT !.fetches = Append(@, [input_type |-> input_type,
                                             awaits |-> "fetch"])],
          "fetch", [input_type |-> input_type, session_id |-> session,
                    message |-> IF input_type = "text" THEN message ELSE Undefined])

\* sendMessage from the end of its second await.  resp.json says whether
\* res.json() resolved (the catch block runs when it rejected); the fields
\* of resp are empty when absent or falsy
sendMessageRest(s, input_type, resp) ==
  IF ~resp.json THEN addMessage(s, "bot", T_Could_not_reach, FALSE)
  ELSE
    LET s1 == IF resp.session_id # <<>>
                THEN emit([s EXCEPT !.sessionId = Session(resp.session_id)],
                          "setSessionId", resp.session_id)
                ELSE s
        s2 == IF input_type = "speech"
                THEN addMessage(s1, "user",
                                IF resp.recognized_text # <<>>
                                  THEN resp.recognized_text ELSE T_Voice_message,
                                FALSE)
                ELSE s1
    IN IF resp.reply # <<>> THEN addMessage(s2, "bot", resp.reply, resp.audio)
       ELSE IF resp.error # <<>> THEN addMessage(s2, "bot", T_Error_ \o resp.error, FALSE)
       ELSE s2

\* handleSendClick: the Send button and the Enter key
handleSendClick(s) ==
  IF trim(s.input) = <<>> THEN s
  ELSE [sendMessage(s, trim(s.input), "text", s.sessionId) EXCEPT !.input = <<>>]

\* onChange of the text field
TypeInput(texts) ==
  /\ mounted
  /\ \E t \in texts : Commit([Cur EXCEPT !.input = t])
  /\ lastMsg' = NoMsg
  /\ UNCHANGED <<starting, clock, advances>>

\* the Send button or the Enter key (MaxFetches bounds the requests without
\* an answer)
SendClick ==
  /\ mounted
  /\ trim(input) # <<>> => Len(fetches) < MaxFetches
  /\ Commit(handleSendClick(Cur))
  /\ lastMsg' = NoMsg
  /\ UNCHANGED <<starting, clock, advances>>

\* fetch resolved: sendMessage calls res.json() and waits for it
FetchResolves(k) ==
  /\ fetches[k].awaits = "fetch"
  /\ Commit([Cur EXCEPT !.fetches[k].awaits = "json"])
  /\ lastMsg' = NoMsg
  /\ UNCHANGED <<starting, clock, advances>>

\* res.json() resolved or rejected, in a later task: the rest of sendMessage
JsonSettles(k, resps) ==
  /\ fetches[k].awaits = "json"
  /\ \E resp \in resps :
       Commit(sendMessageRest([Cur EXCEPT !.fetches = RemoveAt(@, k)],
                              fetches[k].input_type, resp))
  /\ lastMsg' = NoMsg
  /\ UNCHANGED <<starting, clock, advances>>

\* fetch rejected: the catch block of sendMessage
FetchRejects(k) ==
  /\ fetches[k].awaits = "fetch"
  /\ Commit(addMessage([Cur EXCEPT !.fetches = RemoveAt(@, k)],
                        "bot", T_Could_not_reach, FALSE))
  /\ lastMsg' = NoMsg
  /\ UNCHANGED <<starting, clock, advances>>

\* the microphone button (disabled while recording or in live mode):
\* handleMicClick up to its await
MicClick ==
  /\ mounted
  /\ ~recording
  /\ ~liveMode
  /\ recorderStreams < MaxRecordings
  /\ Commit([Cur EXCEPT !.recording = TRUE,
                        !.recorder = [state |-> "asking", due |-> Null,
                                      session |-> sessionId]])
  /\ lastMsg' = NoMsg
  /\ UNCHANGED <<starting, clock, advances>>

\* getUserMedia of handleMicClick resolved: the recorder starts and its 5 s
\* timer is set
RecorderGranted ==
  /\ recorder.state = "asking"
  /\ Commit(emit([Cur EXCEPT !.recorderStreams = @ + 1,
                             !.recorder.state = "recording",
                             !.recorder.due = clock + RECORD_MS],
                 "recorder_start", 0))
  /\ lastMsg' = NoMsg
  /\ UNCHANGED <<starting, clock, advances>>

\* getUserMedia of handleMicClick resolved and new MediaRecorder threw: the
\* catch block runs, the stream a local variable
RecorderUnsupported ==
  /\ recorder.state = "asking"
  /\ Commit(addMessage([Cur EXCEPT !.recorderStreams = @ + 1, !.recording = FALSE,
                                   !.recorder = NoRecorder],
                        "bot", T_Mic_denied, FALSE))
  /\ lastMsg' = NoMsg
  /\ UNCHANGED <<starting, clock, advances>>

\* getUserMedia of handleMicClick rejected: the catch block runs
RecorderDenied ==
  /\ recorder.state = "asking"
  /\ Commit(addMessage([Cur EXCEPT !.recording = FALSE, !.recorder = NoRecorder],
                        "bot", T_Mic_denied, FALSE))
  /\ lastMsg' = NoMsg
  /\ UNCHANGED <<starting, clock, advances>>

\* the 5 s timer: the recorder is recording and recorder.stop() is called,
\* which makes it inactive and queues its stop event
RecorderTimerFires ==
  /\ recorder.state = "recording"
  /\ clock >= recorder.due
  /\ Commit(emit([Cur EXCEPT !.recorder.state = "stopping", !.recorder.due = Null],
                 "recorder_stop", 0))
  /\ lastMsg' = NoMsg
  /\ UNCHANGED <<starting, clock, advances>>

\* the stop event is dispatched, in a later task: recorder.onstop runs to its
\* first await
RecorderStopEvent ==
  /\ recorder.state = "stopping"
  /\ Commit([Cur EXCEPT !.recorder.state = "decoding"])
  /\ lastMsg' = NoMsg
  /\ UNCHANGED <<starting, clock, advances>>

\* decodeAudioData resolved: the rest of recorder.onstop, which starts the
\* reader of the recording
RecorderDecoded ==
  /\ recorder.state = "decoding"
  /\ Commit(emit([Cur EXCEPT !.recording = FALSE, !.recorder = NoRecorder,
                             !.reads = Append(@, [session |-> recorder.session])],
                 "readAsDataURL", 0))
  /\ lastMsg' = NoMsg
  /\ UNCHANGED <<starting, clock, advances>>

\* blob.arrayBuffer or decodeAudioData rejected: recorder.onstop ends there,
\* nothing catches the rejection
RecorderDecodeFails ==
  /\ recorder.state = "decoding"
  /\ Commit([Cur EXCEPT !.recorder = NoRecorder])
  /\ lastMsg' = NoMsg
  /\ UNCHANGED <<starting, clock, advances>>

\* reader.onloadend with the recording read: sendMessage('', 'speech', base64)
ReaderLoaded(k) ==
  /\ Len(fetches) < MaxFetches
  /\ Commit(sendMessage([Cur EXCEPT !.reads = RemoveAt(@, k)],
                         <<>>, "speech", reads[k].session))
  /\ lastMsg' = NoMsg
  /\ UNCHANGED <<starting, clock, advances>>

\* reader.onloadend after a read error: reader.result is null, nothing is sent
ReaderFails(k) ==
  /\ Commit([Cur EXCEPT !.reads = RemoveAt(@, k)])
  /\ lastMsg' = NoMsg
  /\ UNCHANGED <<starting, clock, advances>>

SocketOpen(i) ==
  /\ sockets[i].state = "CONNECTING"
  /\ Commit([Cur EXCEPT !.socks[i].state = "OPEN"])
  /\ lastMsg' = NoMsg
  /\ UNCHANGED <<starting, clock, advances>>

\* the connection ends (closing handshake done, server close, or error):
\* readyState is CLOSED and onclose runs
SocketClose(i) ==
  /\ sockets[i].state # "CLOSED"
  /\ LET s1 == [Cur EXCEPT !.socks[i].state = "CLOSED"]
     IN Commit(IF sockets[i].capLive THEN stopLiveTalk(s1, clock) ELSE s1)
  /\ lastMsg' = NoMsg
  /\ UNCHANGED <<starting, clock, advances>>

\* the history after the message handler took the state from s to r on
\* message m: inside the handler only an accepted voice stop changes
\* lastStopAtRef
noteMessage(s, r, m) ==
  LET fired == r.lastStopAt # s.lastStopAt
      clears == m.event \in {"new_response", "model_speech_start"}
  IN [r EXCEPT !.hist.lastStop = IF fired THEN r.lastStopAt ELSE @,
               !.hist.lastStopEver = IF fired THEN r.lastStopAt ELSE @,
               !.hist.barged = IF clears THEN FALSE ELSE IF fired THEN TRUE ELSE @]

\* a message event on an open socket
Recv(i, m) ==
  /\ sockets[i].state = "OPEN"
  /\ Commit(noteMessage(Cur, handleLiveSocketMessage(Cur, m, clock, sockets[i].capBot),
                         m))
  /\ lastMsg' = m
  /\ UNCHANGED <<starting, clock, advances>>

\* the capture worklet of the session that created socket i posts a frame
MicMsg(i) ==
  [ event |-> "mic_frame", function |-> NoFunction, audioChunk |-> NoChunk,
    hasTranscript |-> FALSE, transcript |-> <<>>, who |-> "",
    result |-> NoResult, node |-> i ]

MicFrame(i) ==
  /\ Commit(onWorkletMessage(Cur, i))
  /\ lastMsg' = MicMsg(i)
  /\ UNCHANGED <<starting, clock, advances>>

\* the environment's own limits: it sends no chunk while maxActive sources are
\* scheduled (let go of or not), and no text that would queue more than MaxPending words or grow
\* the target beyond MaxWords words
RoomFor(maxPending, maxWords) ==
  Len(pendingWordsRef') <= maxPending /\ Len(targetWordsOf(botTargetRef')) <= maxWords
RoomForText == RoomFor(MaxPending, MaxWords)

RecvEvent(i, events) == \E e \in events : Recv(i, EventMsg(e))
RecvToolResult(i, tools, maxBefore, maxWords) ==
  /\ Len(targetWordsOf(botTargetRef)) <= maxBefore
  /\ \E m \in tools : Recv(i, m) /\ RoomFor(maxWords, maxWords)
RecvAudioChunk(i, chunks, maxActive) ==
  /\ Len(activeSourcesRef) + Len(unstoppedSources) < maxActive
  /\ \E c \in chunks : Recv(i, ChunkMsg(c))
RecvUserTranscript(i, texts) == \E t \in texts : Recv(i, TextMsg("user", t))
RecvBotTranscript(i, texts) ==
  \E t \in texts : Grows(t) /\ Recv(i, TextMsg("bot", t)) /\ RoomForText
RecvUnknown(i) == \E m \in UnknownMsgs : Recv(i, m)

\* a message event whose text is not JSON: JSON.parse throws inside the try
RecvNotJson(i) ==
  /\ sockets[i].state = "OPEN"
  /\ Commit(OnParseError(Cur))
  /\ lastMsg' = NotJsonMsg
  /\ UNCHANGED <<starting, clock, advances>>

RevealTimerFires ==
  /\ revealTimerRef # Null
  /\ clock >= revealTimerRef
  /\ Commit(tickReveal(Cur, clock))
  /\ lastMsg' = NoMsg
  /\ UNCHANGED <<starting, clock, advances>>

PlaceholderTimerFires ==
  /\ placeholderTimerRef >= 0
  /\ clock >= placeholderTimerRef
  /\ Commit(placeholderCallback(Cur))
  /\ lastMsg' = NoMsg
  /\ UNCHANGED <<starting, clock, advances>>

\* the sources let go of that are still scheduled or playing at time now
\* (the onended of one that played out deletes nothing)
playedOut(s, now) ==
  [s EXCEPT !.unstopped = SelectSeq(@, LAMBDA src : src.end > currentTime(now))]

\* src.onended of a source that played to its end
SourceEnded(k) ==
  /\ activeSourcesRef[k].end <= currentTime(clock)
  /\ Commit([Cur EXCEPT !.active = RemoveAt(@, k)])
  /\ lastMsg' = NoMsg
  /\ UNCHANGED <<starting, clock, advances>>

Advance(gaps) ==
  /\ advances < MaxAdvances
  /\ \E dt \in gaps : clock' = clock + dt
  /\ advances' = advances + 1
  /\ Commit(playedOut(Cur, clock'))
  /\ lastMsg' = NoMsg
  /\ UNCHANGED starting

\* time passes until the armed reveal timer is due
WaitForReveal ==
  /\ advances < MaxWaits
  /\ revealTimerRef # Null
  /\ revealTimerRef > clock
  /\ clock' = revealTimerRef
  /\ advances' = advances + 1
  /\ Commit(playedOut(Cur, clock'))
  /\ lastMsg' = NoMsg
  /\ UNCHANGED starting

(***************************************************************************)
(* Specifications.  Every step is the whole handler; the specifications    *)
(* differ in what the environment sends and in how many sessions the user  *)
(* starts.                                                                 *)
(***************************************************************************)
\* audio output and barge-in: overlapping and repeated sessions, the turn
\* events, audio chunks, user transcripts, clock gaps around the debounce
NextBarge ==
  \/ ClickStart(MaxSockets)
  \/ ClickStop
  \/ \E k \in 1..Len(starting) : MicGranted(k)
  \/ \E k \in 1..Len(starting) : StartProceed(k)
  \/ \E i \in 1..Len(sockets) : SocketOpen(i)
  \/ \E i \in 1..Len(sockets) : RecvEvent(i, Events)
  \/ \E i \in 1..Len(sockets) : RecvAudioChunk(i, {ChunkFrac}, MaxActive)
  \/ \E i \in 1..Len(sockets) : RecvUserTranscript(i, {T_stop})
  \/ PlaceholderTimerFires
  \/ \E k \in 1..Len(activeSourcesRef) : SourceEnded(k)
  \/ Advance(Gaps)

SpecBarge == Init /\ [][NextBarge]_vars

\* transcript reveal: one session, every kind of message, growing bot texts,
\* clock gaps that let every timer come due
NextReveal ==
  \/ ClickStart(MaxSessions)
  \/ ClickStop
  \/ \E k \in 1..Len(starting) : MicGranted(k)
  \/ \E k \in 1..Len(starting) : StartProceed(k)
  \/ \E i \in 1..Len(sockets) : SocketOpen(i)
  \/ \E i \in 1..Len(sockets) : RecvEvent(i, Events)
  \/ \E i \in 1..Len(sockets) : RecvToolResult(i, RevealTools, MaxWords, MaxWords)
  \/ \E i \in 1..Len(sockets) : RecvAudioChunk(i, {Chunk100}, MaxActiveReveal)
  \/ \E i \in 1..Len(sockets) : RecvUserTranscript(i, {T_stop})
  \/ \E i \in 1..Len(sockets) : RecvBotTranscript(i, BotTexts)
  \/ RevealTimerFires
  \/ PlaceholderTimerFires
  \/ \E k \in 1..Len(activeSourcesRef) : SourceEnded(k)
  \/ Advance({1000})

SpecReveal == Init /\ [][NextReveal]_vars

\* reveal pacing: one session, bot texts with punctuation, a clock that
\* moves from one reveal tick to the next, and the unmount of the component
NextPace ==
  \/ ClickStart(MaxSessions)
  \/ ClickStop
  \/ \E k \in 1..Len(starting) : MicGranted(k)
  \/ \E k \in 1..Len(starting) : StartProceed(k)
  \/ \E i \in 1..Len(sockets) : SocketOpen(i)
  \/ \E i \in 1..Len(sockets) : RecvEvent(i, PaceEvents)
  \/ \E i \in 1..Len(sockets) : RecvBotTranscript(i, PaceTexts)
  \/ RevealTimerFires
  \/ WaitForReveal
  \/ Unmount

SpecPace == Init /\ [][NextPace]_vars

\* the same with fair timers: a due reveal timer fires, and time reaches an
\* armed reveal timer
SpecPaceFair == SpecPace /\ WF_vars(RevealTimerFires) /\ WF_vars(WaitForReveal)

\* session life cycle: overlapping starts, failed starts, stops, connections
\* that the other end closes, capture frames, and enough turn traffic to set
\* the turn flags and trigger a voice stop
NextLife ==
  \/ ClickStart(MaxSockets)
  \/ ClickStop
  \/ \E k \in 1..Len(starting) : MicGranted(k)
  \/ \E k \in 1..Len(starting) : StartProceed(k)
  \/ \E k \in 1..Len(starting) : StartFail(k)
  \/ \E k \in 1..Len(starting) : StartFailSocket(k)
  \/ \E i \in 1..Len(sockets) : SocketOpen(i)
  \/ \E i \in 1..Len(sockets) : SocketClose(i)
  \/ \E i \in 1..Len(sockets) : RecvEvent(i, LifeEvents)
  \/ \E i \in 1..Len(sockets) : RecvAudioChunk(i, {Chunk50}, MaxActiveLife)
  \/ \E i \in 1..Len(sockets) : RecvUserTranscript(i, {T_stop})
  \/ \E i \in 1..Len(sockets) : RecvBotTranscript(i, {T_a_b})
  \/ \E i \in 1..Len(sockets) : MicFrame(i)

SpecLife == Init /\ [][NextLife]_vars

\* ownership of the session's resources: starts that fail before or after
\* the microphone is granted, stops, single recordings, and the unmount of
\* the component while sessions are starting or live
NextOwner ==
  \/ ClickStart(MaxSockets)
  \/ ClickStop
  \/ \E k \in 1..Len(starting) : MicGranted(k)
  \/ \E k \in 1..Len(starting) : StartProceed(k)
  \/ \E k \in 1..Len(starting) : StartFail(k)
  \/ \E k \in 1..Len(starting) : StartFailSocket(k)
  \/ MicClick
  \/ RecorderGranted
  \/ RecorderUnsupported
  \/ RecorderDenied
  \/ RecorderTimerFires
  \/ RecorderStopEvent
  \/ RecorderDecoded
  \/ RecorderDecodeFails
  \/ \E k \in 1..Len(reads) : ReaderLoaded(k)
  \/ \E k \in 1..Len(reads) : ReaderFails(k)
  \/ \E k \in 1..Len(fetches) : FetchResolves(k)
  \/ \E k \in 1..Len(fetches) : JsonSettles(k, Responses)
  \/ \E k \in 1..Len(fetches) : FetchRejects(k)
  \/ Advance({RECORD_MS})
  \/ PlaceholderTimerFires
  \/ Unmount
  \/ \E i \in 1..Len(sockets) : SocketOpen(i)
  \/ \E i \in 1..Len(sockets) : RecvEvent(i, LifeEvents)
  \/ \E i \in 1..Len(sockets) : MicFrame(i)

SpecOwner == Init /\ [][NextOwner]_vars

\* the typed chat request: the text field, the Send button, the two awaits of
\* sendMessage, a live session beside it, and the unmount of the component
\* while a request is in flight
NextChat ==
  \/ TypeInput(InputTexts)
  \/ SendClick
  \/ \E k \in 1..Len(fetches) : FetchResolves(k)
  \/ \E k \in 1..Len(fetches) : JsonSettles(k, Responses)
  \/ \E k \in 1..Len(fetches) : FetchRejects(k)
  \/ ClickStart(MaxSessions)
  \/ ClickStop
  \/ \E k \in 1..Len(starting) : MicGranted(k)
  \/ \E k \in 1..Len(starting) : StartProceed(k)
  \/ \E i \in 1..Len(sockets) : SocketOpen(i)
  \/ Unmount

SpecChat == Init /\ [][NextChat]_vars

\* the player worklet: port messages interleaved with render callbacks
NextPlayer ==
  \/ \E len \in 0..MaxChunkLen : PortPush(len)
  \/ PortClear
  \/ \E b \in BOOLEAN : PortSetPlaying(b)
  \/ \E n \in 1..MaxFrames : Render(n)
  \/ RenderNoChannel

SpecPlayer == Init /\ [][NextPlayer]_vars

\* message robustness: one session, the turn events, good and undecodable
\* chunks, bot text, messages the handler does not know and text that is not
\* JSON
NextMsg ==
  \/ ClickStart(MaxSessions)
  \/ ClickStop
  \/ \E k \in 1..Len(starting) : MicGranted(k)
  \/ \E k \in 1..Len(starting) : StartProceed(k)
  \/ \E i \in 1..Len(sockets) : SocketOpen(i)
  \/ \E i \in 1..Len(sockets) : RecvEvent(i, Events)
  \/ \E i \in 1..Len(sockets) : RecvAudioChunk(i, MsgChunks, MaxActiveReveal)
  \/ \E i \in 1..Len(sockets) : RecvBotTranscript(i, MsgTexts)
  \/ \E i \in 1..Len(sockets) : RecvToolResult(i, MsgTools, MaxToolBefore, MaxToolWords)
  \/ \E i \in 1..Len(sockets) : RecvUnknown(i)
  \/ \E i \in 1..Len(sockets) : RecvNotJson(i)

SpecMsg == Init /\ [][NextMsg]_vars

\* the pure functions, each applied to one argument drawn from its input set
NextCalls ==
  \/ CaptureProcess
  \/ CallIsStopPhrase

SpecCalls == InitCalls /\ [][NextCalls]_vars

(***************************************************************************)
(* Properties.                                                             *)
(***************************************************************************)
HasFx(op) == \E j \in 1..Len(fx) : fx[j].op = op
CountFx(f, op) == Cardinality({j \in 1..Len(f) : f[j].op = op})

\* m is dispatched to the user-transcript branch and matches the stop pattern
UserStopMsg(m) ==
  /\ m.event \notin Events \cup {"tool_result"}
  /\ ~m.audioChunk.truthy
  /\ m.hasTranscript /\ m.who = "user"
  /\ isStopPhrase(m.transcript)

ChunkMsgHandled(m) == m.event \notin Events \cup {"tool_result"} /\ m.audioChunk.truthy

\* the barge-in trigger fires in the step being taken
BargeInFires ==
  /\ UserStopMsg(lastMsg')
  /\ modelSpeakingRef
  /\ DateNow(clock) - lastStopAtRef > DEBOUNCE_MS

\* startLiveTalk created a socket in the step being taken
SessionStarts == Len(sockets') > Len(sockets)

\* C1: a barge-in trigger mutes the output and sets the drop flag in the same
\* handler, and every audioChunk that arrives after it in the session, before
\* the next new_response or model_speech_start, is dropped: nothing is
\* scheduled and the playhead stays.
C1_DropAfterBargeIn ==
  [][ /\ BargeInFires =>
           /\ dropChunksRef'
           /\ outGainRef' \in {0, Null}
           /\ activeSourcesRef' = <<>>
      /\ (ChunkMsgHandled(lastMsg') /\ history.barged) =>
           /\ CountFx(fx', "start") = 0
           /\ activeSourcesRef' = activeSourcesRef
           /\ playheadRef' = playheadRef
    ]_vars

\* the step being taken runs the hard stop of a voice stop
StopAccepted == UserStopMsg(lastMsg') /\ CountFx(fx', "drop") > 0

\* C2: while the model speaks, a stop phrase runs one hard stop (one mute,
\* and one stop command on an open connection) or does nothing; it runs the
\* hard stop only if more than 600 ms have passed since the last voice stop
\* accepted in the session, and it does run it if more than 600 ms have
\* passed since the last voice stop accepted at all.
C2_Debounce ==
  [][ (UserStopMsg(lastMsg') /\ modelSpeakingRef) =>
        /\ IF StopAccepted
             THEN /\ lastStopAtRef' = DateNow(clock)
                  /\ CountFx(fx', "drop") = 1
                  /\ CountFx(fx', "mute") = (IF outGainRef # Null THEN 1 ELSE 0)
                  /\ CountFx(fx', "send_stop") = (IF liveSocketOpen(Cur) THEN 1 ELSE 0)
             ELSE /\ fx' = <<>>
                  /\ UNCHANGED <<lastStopAtRef, dropChunksRef, outGainRef,
                                 activeSourcesRef, playheadRef>>
        /\ StopAccepted => DateNow(clock) - history.lastStop > DEBOUNCE_MS
        /\ DateNow(clock) - history.lastStopEver > DEBOUNCE_MS => StopAccepted
    ]_vars

\* C3: a stop phrase received while the model-speaking flag is clear sends
\* nothing and mutes nothing, and a stop command is only ever sent by a
\* stop-phrase handler that found the flag set.
C3_NoBargeInWhenIdle ==
  [][ /\ (UserStopMsg(lastMsg') /\ ~modelSpeakingRef) =>
           /\ fx' = <<>>
           /\ UNCHANGED <<lastStopAtRef, dropChunksRef, outGainRef,
                          activeSourcesRef, playheadRef>>
      /\ CountFx(fx', "send_stop") > 0 => (UserStopMsg(lastMsg') /\ modelSpeakingRef)
    ]_vars

\* a stop phrase has just been handled with the flag clear, audio scheduled,
\* the gain up and the connection open, and nothing was done
C3_Witness ==
  /\ UserStopMsg(lastMsg)
  /\ ~modelSpeakingRef
  /\ Len(activeSourcesRef) > 0
  /\ outGainRef = GAIN_BASE
  /\ liveSocketOpen(Cur)
  /\ fx = <<>>

\* position of the first effect op in f, 0 when absent
FirstFx(f, op) ==
  IF \E j \in 1..Len(f) : f[j].op = op
    THEN CHOOSE j \in 1..Len(f) : f[j].op = op /\ \A k \in 1..(j-1) : f[k].op # op
    ELSE 0

\* C4: on a barge-in trigger the local hard stop (immediate mute, sources
\* stopped, drop flag set) is done whether or not the connection is open, the
\* stop command is sent iff the connection is open, and it is sent after the
\* hard stop, as the last thing the handler does.
C4_StopOrder ==
  [][ BargeInFires =>
        /\ dropChunksRef' /\ activeSourcesRef' = <<>>
        /\ CountFx(fx', "drop") = 1
        /\ outGainRef # Null => (outGainRef' = 0 /\ CountFx(fx', "mute") = 1
                                  /\ CountFx(fx', "ramp") = 0)
        /\ IF liveSocketOpen(Cur)
             THEN /\ fx'[Len(fx')] = [op |-> "send_stop", arg |-> liveSocketRef]
                  /\ CountFx(fx', "send_stop") = 1
                  /\ FirstFx(fx', "drop") < Len(fx')
             ELSE CountFx(fx', "send_stop") = 0
    ]_vars

\* a barge-in has just stopped the output with no open connection to tell
C4_Witness ==
  /\ UserStopMsg(lastMsg)
  /\ HasFx("drop") /\ HasFx("mute") /\ HasFx("cut")
  /\ ~HasFx("send_stop")
  /\ ~liveSocketOpen(Cur)

BotTextMsg(m) ==
  /\ m.event \notin Events \cup {"tool_result"}
  /\ ~m.audioChunk.truthy
  /\ m.hasTranscript /\ m.who # "user"

\* C5: right after the flush_audio handler no source is active, the output is
\* muted, the drop flag is set, no word is pending, no reveal timer is armed
\* and the revealed words are the whitespace-split target.
C5_FlushFinishes ==
  lastMsg.event = "flush_audio" =>
    /\ activeSourcesRef = <<>>
    /\ outGainRef \in {0, Null}
    /\ dropChunksRef
    /\ pendingWordsRef = <<>>
    /\ revealTimerRef = Null
    /\ revealedWordsRef = targetWordsOf(botTargetRef)
    /\ botTranscript = joinWords(revealedWordsRef)

\* a flush has just cut audio and revealed three words before any tick was due
C5_Witness ==
  /\ lastMsg.event = "flush_audio"
  /\ HasFx("cut")
  /\ clock = 0
  /\ Len(revealedWordsRef) = 3

\* C6: a stop phrase handled right after a flush_audio, hence before the next
\* model_speech_start, sends no stop command.
C6_NoStopAfterFlush ==
  [][ (lastMsg.event = "flush_audio" /\ UserStopMsg(lastMsg'))
        => CountFx(fx', "send_stop") = 0 ]_vars

\* C7: model_speech_end leaves the reveal alone: the pending words stay
\* queued and no word is revealed by the handler.
C7_SpeechEndKeepsReveal ==
  [][ (lastMsg'.event = "model_speech_end" /\ modelSpeakingRef /\ pendingWordsRef # <<>>)
        => /\ pendingWordsRef' = pendingWordsRef
           /\ revealedWordsRef' = revealedWordsRef ]_vars

\* C8: a model_speech_end that follows three accepted audio frames of a
\* speaking turn, with no barge-in or flush since, leaves the three scheduled
\* sources to play out.
C8_SpeechEndKeepsAudio ==
  [][ ( /\ lastMsg'.event = "model_speech_end"
        /\ modelSpeakingRef /\ inResponseRef /\ ~dropChunksRef
        /\ Len(activeSourcesRef) = 3 )
        => /\ activeSourcesRef' = activeSourcesRef
           /\ CountFx(fx', "cut") = 0 ]_vars

\* C9: when every word of the target is revealed or pending and a bot
\* transcript extends the target by a suffix of words, only that suffix is
\* queued: the revealed words stay and revealed followed by pending is the
\* new target.
C9_SuffixOnly ==
  [][ ( /\ BotTextMsg(lastMsg')
        /\ trim(lastMsg'.transcript) # T_stopped
        /\ revealedWordsRef \o pendingWordsRef = targetWordsOf(botTargetRef)
        /\ IsPrefix(targetWordsOf(botTargetRef), targetWordsOf(lastMsg'.transcript))
        /\ Len(targetWordsOf(botTargetRef)) < Len(targetWordsOf(lastMsg'.transcript)) )
        => /\ revealedWordsRef' = revealedWordsRef
           /\ revealedWordsRef' \o pendingWordsRef' = targetWordsOf(lastMsg'.transcript) ]_vars

\* C10: the revealed words are a prefix of the target words, and the revealed
\* and pending words together never outnumber them.
C10_RevealedPrefix ==
  /\ IsPrefix(revealedWordsRef, targetWordsOf(botTargetRef))
  /\ Len(revealedWordsRef) + Len(pendingWordsRef) <= Len(targetWordsOf(botTargetRef))

\* the step being taken is a reveal tick that emits a word
TickEmits ==
  /\ lastMsg' = NoMsg
  /\ Len(revealedWordsRef') = Len(revealedWordsRef) + 1

\* the pause the pacing rule puts after word w
PauseAfter(w) ==
  IF w[Len(w)] \in {".", "?", "!"} THEN 280
  ELSE IF w[Len(w)] \in {",", ";", ":"} THEN 160
  ELSE 0

\* C11: a reveal tick moves the first queued word to the end of the revealed
\* words, which are then the first words of the target in target order; a
\* mounted component shows their joined text; and the next tick is due
\* 340 ms later, plus 280 ms after a word ending in . ? ! or 160 ms after one
\* ending in , ; :
C11_RevealPacing ==
  [][ TickEmits =>
        /\ revealedWordsRef' = Append(revealedWordsRef, Head(pendingWordsRef))
        /\ pendingWordsRef' = Tail(pendingWordsRef)
        /\ mounted => botTranscript' = joinWords(revealedWordsRef')
        /\ revealTimerRef' - clock = 340 + PauseAfter(Head(pendingWordsRef))
        /\ IsPrefix(revealedWordsRef', targetWordsOf(botTargetRef))
    ]_vars

\* the step being taken is a render callback that has an output channel
Renders == tape'.renders = tape.renders + 1 /\ outCh' # <<>>

\* C12: with the gate open a render callback's window is the next
\* Len(window) unread samples in push order, zero-filled only past the last
\* queued sample, and those samples leave the queue; with no clear so far the
\* samples copied out followed by the unread ones are all pushed samples in
\* push order.
C12_DrainInOrder ==
  [][ /\ (Renders /\ playing) =>
           LET n == Len(outCh')
               rest == Remaining(queue)
           IN /\ outCh' = SubSeq(rest \o Zeros(n), 1, n)
              /\ Remaining(queue') = SubSeq(rest, n + 1, Len(rest))
      /\ tape'.clears = 0 =>
           tape'.played \o Remaining(queue') = [j \in 1..tape'.pushed |-> j]
    ]_vars

\* two pushes of four samples in all, never cleared, have been drained by
\* windows of three: the last window holds sample 4 and two zeros
C12_Witness ==
  /\ lastPort = "process" /\ playing
  /\ tape.clears = 0 /\ tape.pushes = 2
  /\ tape.played = <<1, 2, 3, 4>>
  /\ outCh = <<4, 0, 0>>

\* C13: once a clear has been handled the queue is empty, a render callback
\* that comes right after it yields only zeros, and no later window holds a
\* sample pushed before the clear, the unread rest of a partly read head
\* chunk included.
C13_ClearDropsAll ==
  [][ /\ lastPort' = "clear" =>
           queue' = [buffers |-> <<>>, readIndex |-> 0, length |-> 0]
      /\ (lastPort = "clear" /\ Renders) => outCh' = Zeros(Len(outCh'))
      /\ Renders =>
           \A j \in 1..Len(outCh') : outCh'[j] # 0 => outCh'[j] > tape'.clearedAt
      /\ \A j \in 1..Len(Remaining(queue')) : Remaining(queue')[j] > tape'.clearedAt
    ]_vars

\* a chunk of three was read up to sample 1 and cleared; the next sample
\* played is sample 4, pushed after the clear
C13_Witness ==
  /\ lastPort = "process" /\ playing
  /\ tape.clears = 1 /\ tape.clearedAt = 3 /\ tape.pushes = 2
  /\ tape.played = <<1, 4>>

\* C14: the gate is closed initially, and while it is closed a render
\* callback yields only zeros and leaves the queue's chunks and read position
\* as they are.
C14_GateHolds ==
  /\ ~playing
  /\ [][ (Renders /\ ~playing) =>
           /\ outCh' = Zeros(Len(outCh'))
           /\ queue' = queue
           /\ tape'.played = tape.played ]_vars

\* the gate was closed in the middle of a chunk and a window of silence has
\* been rendered with the read position kept
C14_Witness ==
  /\ lastPort = "process" /\ ~playing
  /\ outCh = <<0, 0>>
  /\ queue.readIndex = 1
  /\ tape.played = <<1>>
  /\ Remaining(queue) = <<2, 3>>

\* the reveal state is empty: no target, no words, no timers
TranscriptEmpty ==
  /\ botTargetRef = <<>> /\ revealedWordsRef = <<>> /\ pendingWordsRef = <<>>
  /\ revealTimerRef = Null /\ placeholderTimerRef = Null
  /\ botTranscript = <<>>

\* capture, audio handles and connection handle are let go of, playback is
\* cleared, live mode is off
TornDown ==
  /\ ~mediaStreamRef /\ ~workletNodeRef /\ ~audioContextRef
  /\ outGainRef = Null /\ liveSocketRef = Null
  /\ activeSourcesRef = <<>> /\ dropChunksRef
  /\ ~liveMode

Live(i) == sockets[i].state \in {"CONNECTING", "OPEN"}

\* C15: when the session's socket goes from connecting or open to closed
\* while live mode is on, the handler tears the session down as a stop does,
\* and creates no socket.
C15_CloseTearsDown ==
  [][ ( /\ liveMode /\ liveSocketRef # Null
        /\ sockets[liveSocketRef].state = "OPEN"
        /\ sockets'[liveSocketRef].state = "CLOSED" )
        => /\ TornDown' /\ TranscriptEmpty'
           /\ Len(sockets') = Len(sockets) /\ starting' = starting ]_vars

\* the step being taken ran stopLiveTalk
StopRuns == lastMsg' = NoMsg /\ CountFx(fx', "drop") > 0

\* C16: when stopLiveTalk has run, capture is released, the socket it held
\* is closing or closed, playback is cleared and muted, both turn flags are
\* false and the transcript state is empty.
C16_StopResetsAll ==
  [][ StopRuns =>
        /\ TornDown'
        /\ liveSocketRef # Null =>
             sockets'[liveSocketRef].state \in {"CLOSING", "CLOSED"}
        /\ ~modelSpeakingRef' /\ ~inResponseRef'
        /\ TranscriptEmpty' ]_vars

\* C17: at most one socket is connecting or open.
C17_OneLiveHandle ==
  Cardinality({i \in 1..Len(sockets) : Live(i)}) <= 1

\* C18: no socket is connecting or open while another is closing.
C18_NoStartWhileClosing ==
  \A i, j \in 1..Len(sockets) : ~(sockets[i].state = "CLOSING" /\ Live(j))

\* C19: stopLiveTalk with the held socket open sends one commit on it, first
\* of all it does, and closes it; otherwise it sends no commit; no socket is
\* ever sent a second commit or any frame after its commit.
C19_CommitLast ==
  [][ /\ StopRuns =>
           IF liveSocketOpen(Cur)
             THEN /\ fx'[1] = [op |-> "send_commit", arg |-> liveSocketRef]
                  /\ CountFx(fx', "send_commit") = 1
                  /\ sockets'[liveSocketRef].state = "CLOSING"
             ELSE CountFx(fx', "send_commit") = 0
      /\ CountFx(fx', "send_commit") > 0 => StopRuns
      /\ \A i \in 1..Len(sockets') :
           /\ sockets'[i].commits <= 1
           /\ sockets'[i].late = 0
           /\ sockets'[i].commits = 1 => sockets'[i].state \in {"CLOSING", "CLOSED"}
    ]_vars

\* a second teardown has just run after the one that sent the commit, and
\* sent nothing
C19_Witness ==
  /\ lastMsg = NoMsg
  /\ HasFx("drop") /\ ~HasFx("send_commit")
  /\ \E i \in 1..Len(sockets) : sockets[i].commits = 1
  /\ \A i \in 1..Len(sockets) : ~Live(i)

SendOps == {"send_audio", "send_stop", "send_commit"}

\* C20: a capture frame is sent as one audio message iff the socket of its
\* session is open, whatever the turn flags and the drop flag are, and
\* changes nothing else; and no step sends anything on a socket that is not
\* open when the step begins.
C20_MicWhenOpen ==
  [][ /\ lastMsg'.event = "mic_frame" =>
           /\ fx' = IF sockets[lastMsg'.node].state = "OPEN"
                      THEN << [op |-> "send_audio", arg |-> lastMsg'.node] >>
                      ELSE <<>>
           /\ UNCHANGED << modelSpeakingRef, inResponseRef, dropChunksRef,
                           lastStopAtRef, activeSourcesRef, outGainRef >>
      /\ \A j \in 1..Len(fx') :
           fx'[j].op \in SendOps =>
             /\ fx'[j].arg \in 1..Len(sockets)
             /\ sockets[fx'[j].arg].state = "OPEN"
    ]_vars

\* a capture frame has just been sent while the model speaks and chunks are
\* being dropped after a voice stop
C20_Witness ==
  /\ lastMsg.event = "mic_frame"
  /\ fx = << [op |-> "send_audio", arg |-> lastMsg.node] >>
  /\ modelSpeakingRef /\ dropChunksRef /\ lastStopAtRef # 0

\* C21: an audioChunk message whose payload cannot be decoded schedules no
\* audio and leaves the playhead, the scheduled sources, the turn flags and the
\* transcript buffer as they were
BadChunkMsg(m) == ChunkMsgHandled(m) /\ ~decodes(m.audioChunk)
C21_BadChunkIsolated ==
  [][BadChunkMsg(lastMsg') =>
       /\ \A j \in 1..Len(fx') : fx'[j].op # "start"
       /\ UNCHANGED <<playheadRef, activeSourcesRef, modelSpeakingRef, inResponseRef,
                      dropChunksRef, botTargetRef, revealedWordsRef, pendingWordsRef,
                      botTranscript, hasReceivedBotWordsRef>>]_vars

\* C22: a message that is not JSON, or that has an unknown or absent event
\* and neither an audioChunk (the field absent or falsy) nor a transcript,
\* changes nothing and sends nothing; a truthy chunk that decodes to no bytes
\* takes the chunk branch and is not one of these messages
IgnoredMsg(m) ==
  \/ m = NotJsonMsg
  \/ /\ m.event \notin Events \cup {"tool_result", "mic_frame"}
     /\ ~m.audioChunk.truthy
     /\ ~m.hasTranscript
     /\ m # NoMsg
C22_IgnoredMessages ==
  [][IgnoredMsg(lastMsg') =>
       /\ \A j \in 1..Len(fx') : fx'[j].op = "throw"
       /\ UNCHANGED <<modelSpeakingRef, inResponseRef, dropChunksRef, lastStopAtRef,
                      playheadRef, activeSourcesRef, outGainRef, audioContextRef,
                      mediaStreamRef, workletNodeRef, liveSocketRef, liveMode,
                      botTranscript, botTargetRef, revealedWordsRef, pendingWordsRef,
                      revealTimerRef, placeholderTimerRef, hasReceivedBotWordsRef,
                      sockets, starting>>]_vars
C22_Witness ==
  /\ IgnoredMsg(lastMsg)
  /\ modelSpeakingRef
  /\ Len(activeSourcesRef) > 0
  /\ Len(pendingWordsRef) > 0
  /\ revealTimerRef # Null

\* C23: when a start fails to acquire the microphone, no connection handle is
\* created or touched, nothing is sent and live mode is off afterwards
FailedStart ==
  /\ Len(sockets') = Len(sockets)
  /\ \E k \in 1..Len(starting) : ~starting[k].mic /\ starting' = RemoveAt(starting, k)
C23_FailedStartInert ==
  [][FailedStart =>
       /\ sockets' = sockets
       /\ \A j \in 1..Len(fx') : fx'[j].op \notin SendOps \cup {"close"}
       /\ ~liveMode']_vars

\* C24: after a new_response no audio accepted before it is still scheduled
ScheduledAfter(now) == {k \in 1..Len(activeSourcesRef) : activeSourcesRef[k].end > now}
C24_NewResponseClearsAudio ==
  lastMsg.event = "new_response" => ScheduledAfter(currentTime(clock)) = {}

\* C25: a tool_result leaves the turn flags, the drop flag and the playback
\* schedule unchanged, and the new transcript target is the previous target
\* followed by the formatted result
EndsWith(a, b) == Len(b) <= Len(a) /\ SubSeq(a, Len(a) - Len(b) + 1, Len(a)) = b
C25_ToolResultAppends ==
  [][lastMsg'.event = "tool_result" =>
       /\ UNCHANGED <<modelSpeakingRef, inResponseRef, dropChunksRef,
                      playheadRef, activeSourcesRef>>
       /\ IsPrefix(botTargetRef, botTargetRef')
       /\ EndsWith(botTargetRef', toolSummary(lastMsg'.function, lastMsg'.result))]_vars

\* C26: right after the bot transcript "[stopped]" is handled the pending
\* queue is empty, no reveal timer is armed and the whole target is displayed
SentinelMsg(m) == BotTextMsg(m) /\ trim(m.transcript) = T_stopped
C26_SentinelRevealsAll ==
  SentinelMsg(lastMsg) =>
    /\ pendingWordsRef = <<>>
    /\ revealTimerRef = Null
    /\ botTargetRef = lastMsg.transcript
    /\ revealedWordsRef = targetWordsOf(botTargetRef)
    /\ botTranscript = joinWords(targetWordsOf(botTargetRef))
C26_Witness ==
  /\ SentinelMsg(lastMsg)
  /\ modelSpeakingRef
  /\ Len(activeSourcesRef) > 0
  /\ botTranscript = T_stopped

\* C27: once a bot word of the turn has been enqueued the placeholder is not
\* displayed
C27_PlaceholderGone ==
  hasReceivedBotWordsRef => botTranscript # ELLIPSIS

\* C28: the capture encoder emits two bytes per sample, the little-endian
\* 16-bit value round(f * 32767) clamped to the signed 16-bit range
Int16At(buf, i) ==
  LET u == buf[2 * i - 1] + 256 * buf[2 * i]
  IN IF u >= 32768 THEN u - 65536 ELSE u
RoundScaled(n) ==
  LET a == n * 32767
      r == IF a >= 0 THEN (2 * a + SampleDen) \div (2 * SampleDen)
                     ELSE -((2 * (-a) + SampleDen) \div (2 * SampleDen))
  IN IF r > 32767 THEN 32767 ELSE IF r < -32768 THEN -32768 ELSE r
C28_EncoderRounds ==
  encodeCall.state = "done" =>
    /\ Len(encodeCall.out) = 2 * Len(encodeCall.arg)
    /\ \A i \in 1..Len(encodeCall.arg) :
         Int16At(encodeCall.out, i) = RoundScaled(encodeCall.arg[i])

\* C29: isStopPhrase(s) holds exactly when s contains a vocabulary word as a
\* whole word or phrase, in any case, or when s trimmed and lower-cased is
\* "st" or "sto"
WholeWordAt(s, w, i) ==
  /\ i + Len(w) - 1 <= Len(s)
  /\ toLowerCase(SubSeq(s, i, i + Len(w) - 1)) = w
  /\ (i = 1 \/ ~IsWordChar(s[i - 1]))
  /\ (i + Len(w) - 1 = Len(s) \/ ~IsWordChar(s[i + Len(w)]))
SaysStop(s) ==
  \/ \E w \in StopWords : \E i \in 1..Len(s) : WholeWordAt(s, w, i)
  \/ toLowerCase(trim(s)) \in { <<"s","t">>, <<"s","t","o">> }
C29_StopPhrase ==
  phraseCall.state = "done" => (phraseCall.out = SaysStop(phraseCall.arg))
C29_Witness ==
  /\ phraseCall.state = "done"
  /\ phraseCall.arg = <<"n","o","n","-">> \o <<"S","T","O","P">> \o <<"!">>
  /\ phraseCall.out = TRUE

\* C30: an accepted chunk starts no earlier than the current time and, with
\* no hard stop since the chunk accepted before it, no earlier than that
\* chunk's end; it lasts its duration; and as long as no hard stop follows
\* the last accepted chunk the playhead is that chunk's end time
Accepted == ChunkMsgHandled(lastMsg') /\ \E j \in 1..Len(fx') : fx'[j].op = "start"
C30_ScheduledInOrder ==
  [][ /\ Accepted =>
           LET src == activeSourcesRef'[Len(activeSourcesRef')] IN
           /\ Len(activeSourcesRef') = Len(activeSourcesRef) + 1
           /\ src.start >= currentTime(clock)
           /\ history.lastChunkEnd # Null => src.start >= history.lastChunkEnd
           /\ src.end = src.start + duration(lastMsg'.audioChunk)
           /\ playheadRef' = src.end
      /\ history'.lastChunkEnd # Null => playheadRef' = history'.lastChunkEnd
    ]_vars

\* C31: handling an audioChunk message (a well-formed one included) changes
\* neither the model-speaking flag nor the in-response flag
C31_ChunkKeepsTurnState ==
  [][(ChunkMsgHandled(lastMsg') /\ decodes(lastMsg'.audioChunk)) =>
       UNCHANGED <<modelSpeakingRef, inResponseRef>>]_vars

\* C32: within a turn, a bot transcript, tool_result or audioChunk message
\* removes no word from the list of revealed words
KeepsRevealMsg(m) ==
  \/ BotTextMsg(m) /\ trim(m.transcript) # T_stopped
  \/ m.event = "tool_result"
  \/ ChunkMsgHandled(m)
C32_RevealedKept ==
  [][(KeepsRevealMsg(lastMsg') /\ inResponseRef /\ revealedWordsRef # <<>>) =>
       IsPrefix(revealedWordsRef, revealedWordsRef')]_vars

\* the sources let go of without a stop that have not played to their end
StillScheduled ==
  {k \in 1..Len(unstoppedSources) : unstoppedSources[k].end > currentTime(clock)}

\* C33: while the drop flag is set no output source is scheduled or playing,
\* whether activeSourcesRef still holds it or not, and a step taken with the
\* flag set schedules none
C33_NoStaleAudio ==
  /\ [](dropChunksRef => (activeSourcesRef = <<>> /\ StillScheduled = {}))
  /\ [][(dropChunksRef /\ dropChunksRef') => CountFx(fx', "start") = 0]_vars

\* C34: when an audioChunk has just been accepted and scheduled, the output
\* gain is not at the hard-mute level
C34_AudibleWhenAccepted ==
  (ChunkMsgHandled(lastMsg) /\ HasFx("start")) => outGainRef > 0

\* C35: whenever words are pending a reveal timer is armed, the condition
\* under which fair timers reveal every queued word
C35_PendingHasTimer ==
  pendingWordsRef # <<>> => revealTimerRef # Null

\* C36: after a start that fails with the microphone already acquired, the
\* only captures still running are the one held in the refs and those of
\* start calls still in progress
FailedAfterMic ==
  /\ Len(sockets') = Len(sockets)
  /\ \E k \in 1..Len(starting) : starting[k].mic /\ starting' = RemoveAt(starting, k)
HeldCaptures ==
  (IF mediaStreamRef THEN 1 ELSE 0)
    + Cardinality({k \in 1..Len(starting) : starting[k].mic})
C36_FailedStartReleases ==
  [][FailedAfterMic => openCaptures' <= HeldCaptures']_vars

\* C37: the step that creates a session's socket leaves both turn flags and
\* the drop flag false, the debounce timestamp zero, no source scheduled, the
\* playhead at the current time and the transcript buffer and timers empty
C37_StartResets ==
  [][SessionStarts =>
       /\ ~modelSpeakingRef' /\ ~inResponseRef' /\ ~dropChunksRef'
       /\ lastStopAtRef' = 0
       /\ activeSourcesRef' = <<>>
       /\ playheadRef' = currentTime(clock)
       /\ TranscriptEmpty'
       /\ sockets'[Len(sockets')].state = "CONNECTING"
       /\ liveSocketRef' = Len(sockets')]_vars
C37_Witness ==
  /\ Len(sockets) = 2
  /\ sockets[1].state \in {"CLOSING", "CLOSED"}
  /\ sockets[1].commits = 1
  /\ liveSocketRef = 2
  /\ sockets[2].state = "CONNECTING"
  /\ ~dropChunksRef /\ ~modelSpeakingRef /\ lastStopAtRef = 0

\* C38: once the component has been unmounted no socket is connecting or
\* open, no microphone stream is held or running, and the step just taken
\* handled no inbound message
C38_UnmountTearsDown ==
  ~mounted =>
    /\ \A i \in 1..Len(sockets) : ~Live(i)
    /\ ~mediaStreamRef /\ openCaptures = 0
    /\ lastMsg = NoMsg

\* C39: PCMQueue.length is the number of queued samples not yet drained,
\* readIndex is 0 when the queue is empty and otherwise less than the head
\* chunk's length, and no queued chunk is empty
C39_QueueLength ==
  /\ queue.length = Len(Remaining(queue))
  /\ queue.buffers = <<>> => queue.readIndex = 0
  /\ queue.buffers # <<>> => queue.readIndex < Len(queue.buffers[1])
  /\ \A k \in 1..Len(queue.buffers) : Len(queue.buffers[k]) > 0

=============================================================================
